---- MODULE Spec2Model ----
(***************************************************************************)
(* Storage core of the billing system: the order-4 B+Tree index            *)
(* (core/bplus_tree.hpp), the LRU cache (core/lru_cache.hpp), the binary   *)
(* record codec and the repository that composes them                      *)
(* (repository/customer_repository.hpp).                                   *)
(***************************************************************************)
EXTENDS Integers, Sequences, FiniteSets, TLC

VARIABLES store, index, cache, file, last, dirty, failures,
          pc, loc, mutex, cmutex, shadow, ref, gen, clock

vars == <<store, index, cache, file, last, dirty, failures,
          pc, loc, mutex, cmutex, shadow, ref, gen, clock>>

repoVars == <<store, index, cache, file, dirty, failures>>
thrVars == <<pc, loc, mutex, cmutex, shadow>>
snowVars == <<gen, clock>>

(***************************************************************************)
(* Bounds of the model.                                                    *)
(***************************************************************************)
\* ids used by the single-caller specification
MaxId == 2
\* ids used by the multi-threaded specification
MaxIdConc == 1
\* cap on the number of entries the index may hold (save is not offered beyond)
MaxIndex == 4
\* the same cap in the multi-threaded specification
MaxIndexConc == 2
\* cap on the number of B+Tree nodes ever allocated
MaxNodes == 4
\* cap on the number of LRUCache::get calls (hits_ + misses_)
MaxGets == 1
\* capacity handed to the LRUCache constructor (256 in the repository;
\* scaled down so that capacity-driven eviction happens)
CacheCapacity == 1
\* cap on the number of flushes that fail to open the file
MaxFailures == 1
\* number of threads calling into one repository
NThreads == 2
\* keys handed to the B+Tree on its own
MaxKey == 10
\* cap on the entries of the B+Tree on its own (insert is not offered beyond)
MaxTreeSize == 10
\* the same cap once a key has been inserted while it was present
MaxDupSize == 5
\* keys up to MaxFreeKey are inserted in any order and also while present,
\* a larger key only while its predecessor is present and no key is doubled
MaxFreeKey == 2
\* cap on the number of remove and update calls on the B+Tree on its own
MaxMods == 2
\* range is called with hi - lo up to MaxSpan
MaxSpan == 1
\* cap on the entries of the B+Tree that is to be emptied
MaxDrainSize == 4
\* cap on the remove and update calls on the B+Tree that is to be emptied
MaxDrainMods == 4
\* keys handed to the LRUCache on its own
MaxLruKey == 3
\* capacity handed to the constructor of the LRUCache on its own
LruCapacity == 2
\* cap on the number of get calls on the LRUCache on its own
MaxLruGets == 2
\* keys handed to the LRUCache by concurrent threads
MaxLruKeyConc == 2
\* cap on the next() calls begun on one SnowflakeGenerator
MaxCalls == 3
\* cap on the ms the clock moves forward
MaxTicks == 2
\* cap on the times the wall clock is set back
MaxRegress == 1
\* decode is given timestamps up to MaxOffset ms from EPOCH and from EPOCH + 2^41
MaxOffset == 1
\* constructors are given arguments up to MaxCtorArg beyond the ends of the
\* valid range
MaxCtorArg == 4

(***************************************************************************)
(* Program constants.                                                      *)
(***************************************************************************)
Order == 4
MAX_KEYS == Order - 1
MIN_KEYS == (Order - 1) \div 2

NULL == 0
\* std::optional: the empty sequence is nullopt, <<v>> holds v
nullopt == <<>>
Some(v) == <<v>>

(***************************************************************************)
(* B+Tree (core/bplus_tree.hpp).  A tree is an arena of nodes addressed by *)
(* index (the pointers of the source), the root's index and size_.         *)
(* num_keys of a node is Len(keys).                                        *)
(***************************************************************************)
Node(leaf) ==
  [is_leaf |-> leaf, keys |-> <<>>, values |-> <<>>, children |-> <<>>,
   next_leaf |-> NULL]

BPlusTree == [nodes |-> <<Node(TRUE)>>, root |-> 1, size |-> 0]

RECURSIVE ub_loop(_, _, _)
ub_loop(n, key, i) ==
  IF i < Len(n.keys) /\ key >= n.keys[i + 1] THEN ub_loop(n, key, i + 1) ELSE i

upper_bound_idx(n, key) == ub_loop(n, key, 0)

RECURSIVE lb_loop(_, _, _)
lb_loop(n, key, i) ==
  IF i < Len(n.keys) /\ key > n.keys[i + 1] THEN lb_loop(n, key, i + 1) ELSE i

lower_bound_idx(n, key) == lb_loop(n, key, 0)

\* s with x placed at 0-based position pos, the rest shifted right
InsertAt(s, pos, x) == SubSeq(s, 1, pos) \o <<x>> \o SubSeq(s, pos + 1, Len(s))

\* s without its element at 0-based position pos
RemoveAt(s, pos) == SubSeq(s, 1, pos) \o SubSeq(s, pos + 2, Len(s))

\* split_leaf with the left leaf still linked to its old successor
split_leaf_unlinked(nodes, leaf) ==
  LET mid == Order \div 2
      n == nodes[leaf]
      sib == Len(nodes) + 1
      sibling == [is_leaf |-> TRUE,
                  keys |-> SubSeq(n.keys, mid + 1, Len(n.keys)),
                  values |-> SubSeq(n.values, mid + 1, Len(n.values)),
                  children |-> <<>>,
                  next_leaf |-> n.next_leaf]
      left == [n EXCEPT !.keys = SubSeq(n.keys, 1, mid),
                        !.values = SubSeq(n.values, 1, mid)]
  IN [nodes |-> Append([nodes EXCEPT ![leaf] = left], sibling),
      new_child |-> sib, promoted_key |-> sibling.keys[1], did_split |-> TRUE]

split_leaf(nodes, leaf) ==
  LET mid == Order \div 2
      n == nodes[leaf]
      sib == Len(nodes) + 1
      sibling == [is_leaf |-> TRUE,
                  keys |-> SubSeq(n.keys, mid + 1, Len(n.keys)),
                  values |-> SubSeq(n.values, mid + 1, Len(n.values)),
                  children |-> <<>>,
                  next_leaf |-> n.next_leaf]
      left == [n EXCEPT !.keys = SubSeq(n.keys, 1, mid),
                        !.values = SubSeq(n.values, 1, mid),
                        !.next_leaf = sib]
  IN [nodes |-> Append([nodes EXCEPT ![leaf] = left], sibling),
      new_child |-> sib, promoted_key |-> sibling.keys[1], did_split |-> TRUE]

split_internal(nodes, node) ==
  LET n == nodes[node]
      mid == Len(n.keys) \div 2
      pkey == n.keys[mid + 1]
      sib == Len(nodes) + 1
      sibling == [is_leaf |-> FALSE,
                  keys |-> SubSeq(n.keys, mid + 2, Len(n.keys)),
                  values |-> <<>>,
                  children |-> SubSeq(n.children, mid + 2, Len(n.children)),
                  next_leaf |-> NULL]
      left == [n EXCEPT !.keys = SubSeq(n.keys, 1, mid),
                        !.children = SubSeq(n.children, 1, mid + 1)]
  IN [nodes |-> Append([nodes EXCEPT ![node] = left], sibling),
      new_child |-> sib, promoted_key |-> pkey, did_split |-> TRUE]

NoSplit(nodes) ==
  [nodes |-> nodes, new_child |-> NULL, promoted_key |-> 0, did_split |-> FALSE]

RECURSIVE insert_recursive(_, _, _, _)
insert_recursive(nodes, node, key, value) ==
  LET n == nodes[node] IN
  IF n.is_leaf
  THEN LET pos == lower_bound_idx(n, key)
           filled == [n EXCEPT !.keys = InsertAt(n.keys, pos, key),
                               !.values = InsertAt(n.values, pos, value)]
           nodes1 == [nodes EXCEPT ![node] = filled]
       IN IF Len(filled.keys) < Order THEN NoSplit(nodes1)
          ELSE split_leaf(nodes1, node)
  ELSE LET i == upper_bound_idx(n, key)
           r == insert_recursive(nodes, n.children[i + 1], key, value)
       IN IF ~r.did_split THEN NoSplit(r.nodes)
          ELSE LET grown == [n EXCEPT
                               !.keys = InsertAt(n.keys, i, r.promoted_key),
                               !.children = InsertAt(n.children, i + 1, r.new_child)]
                   nodes1 == [r.nodes EXCEPT ![node] = grown]
               IN IF Len(grown.keys) < Order THEN NoSplit(nodes1)
                  ELSE split_internal(nodes1, node)

BPlusTree_insert(t, key, value) ==
  LET r == insert_recursive(t.nodes, t.root, key, value) IN
  IF r.did_split
  THEN LET new_root == [is_leaf |-> FALSE,
                        keys |-> <<r.promoted_key>>,
                        values |-> <<>>,
                        children |-> <<t.root, r.new_child>>,
                        next_leaf |-> NULL]
       IN [nodes |-> Append(r.nodes, new_root),
           root |-> Len(r.nodes) + 1,
           size |-> t.size + 1]
  ELSE [nodes |-> r.nodes, root |-> t.root, size |-> t.size + 1]

\* the descent of search/update taking the child left of an equal separator
RECURSIVE descend_upper_left(_, _, _)
descend_upper_left(nodes, node, key) ==
  IF nodes[node].is_leaf THEN node
  ELSE descend_upper_left(nodes,
                          nodes[node].children[lower_bound_idx(nodes[node], key) + 1],
                          key)

\* the leaf reached from node by the upper_bound descent of search/update
RECURSIVE descend_upper(_, _, _)
descend_upper(nodes, node, key) ==
  IF nodes[node].is_leaf THEN node
  ELSE descend_upper(nodes,
                     nodes[node].children[upper_bound_idx(nodes[node], key) + 1],
                     key)

\* the leaf reached from node by the lower_bound descent of range
RECURSIVE descend_lower(_, _, _)
descend_lower(nodes, node, key) ==
  IF nodes[node].is_leaf THEN node
  ELSE descend_lower(nodes,
                     nodes[node].children[lower_bound_idx(nodes[node], key) + 1],
                     key)

\* 0-based position of the first entry of leaf n with the key, or -1
RECURSIVE find_in_leaf(_, _, _)
find_in_leaf(n, key, i) ==
  IF i >= Len(n.keys) THEN -1
  ELSE IF n.keys[i + 1] = key THEN i
  ELSE find_in_leaf(n, key, i + 1)

BPlusTree_search(t, key) ==
  LET n == t.nodes[descend_upper(t.nodes, t.root, key)]
      i == find_in_leaf(n, key, 0)
  IN IF i >= 0 THEN Some(n.values[i + 1]) ELSE nullopt

\* the leaf walk of range ending at the end of a leaf that holds no key
RECURSIVE range_walk_stop(_, _, _, _, _, _)
range_walk_stop(nodes, node, i, lo, hi, result) ==
  IF node = NULL THEN result
  ELSE LET n == nodes[node] IN
       IF Len(n.keys) = 0 THEN result
       ELSE IF i >= Len(n.keys)
            THEN range_walk_stop(nodes, n.next_leaf, 0, lo, hi, result)
       ELSE IF n.keys[i + 1] > hi THEN result
       ELSE IF n.keys[i + 1] >= lo
            THEN range_walk_stop(nodes, node, i + 1, lo, hi,
                                 Append(result, <<n.keys[i + 1], n.values[i + 1]>>))
            ELSE range_walk_stop(nodes, node, i + 1, lo, hi, result)

\* the leaf walk of range: node and position i, result so far
RECURSIVE range_walk(_, _, _, _, _, _)
range_walk(nodes, node, i, lo, hi, result) ==
  IF node = NULL THEN result
  ELSE LET n == nodes[node] IN
       IF i >= Len(n.keys) THEN range_walk(nodes, n.next_leaf, 0, lo, hi, result)
       ELSE IF n.keys[i + 1] > hi THEN result
       ELSE IF n.keys[i + 1] >= lo
            THEN range_walk(nodes, node, i + 1, lo, hi,
                            Append(result, <<n.keys[i + 1], n.values[i + 1]>>))
            ELSE range_walk(nodes, node, i + 1, lo, hi, result)

BPlusTree_range(t, lo, hi) ==
  range_walk(t.nodes, descend_lower(t.nodes, t.root, lo), 0, lo, hi, <<>>)

\* [tree, found]
BPlusTree_update(t, key, value) ==
  LET leaf == descend_upper(t.nodes, t.root, key)
      i == find_in_leaf(t.nodes[leaf], key, 0)
  IN IF i >= 0
     THEN [tree |-> [t EXCEPT !.nodes[leaf].values[i + 1] = value], found |-> TRUE]
     ELSE [tree |-> t, found |-> FALSE]

\* [nodes, removed]
RECURSIVE remove_recursive(_, _, _)
remove_recursive(nodes, node, key) ==
  LET n == nodes[node] IN
  IF n.is_leaf
  THEN LET i == find_in_leaf(n, key, 0) IN
       IF i >= 0
       THEN [nodes |-> [nodes EXCEPT ![node] =
                          [n EXCEPT !.keys = RemoveAt(n.keys, i),
                                    !.values = RemoveAt(n.values, i)]],
             removed |-> TRUE]
       ELSE [nodes |-> nodes, removed |-> FALSE]
  ELSE remove_recursive(nodes, n.children[upper_bound_idx(n, key) + 1], key)

\* remove that drops the root once its first child has no key left
BPlusTree_remove_shrink(t, key) ==
  LET r == remove_recursive(t.nodes, t.root, key) IN
  IF r.removed
  THEN LET rt == r.nodes[t.root] IN
       IF ~rt.is_leaf /\ Len(r.nodes[rt.children[1]].keys) = 0
       THEN [tree |-> [nodes |-> r.nodes, root |-> rt.children[1],
                       size |-> t.size - 1],
             removed |-> TRUE]
       ELSE [tree |-> [nodes |-> r.nodes, root |-> t.root, size |-> t.size - 1],
             removed |-> TRUE]
  ELSE [tree |-> t, removed |-> FALSE]

\* [tree, removed]
BPlusTree_remove(t, key) ==
  LET r == remove_recursive(t.nodes, t.root, key) IN
  IF r.removed
  THEN LET rt == r.nodes[t.root] IN
       IF ~rt.is_leaf /\ Len(rt.keys) = 0
       THEN [tree |-> [nodes |-> r.nodes, root |-> rt.children[1],
                       size |-> t.size - 1],
             removed |-> TRUE]
       ELSE [tree |-> [nodes |-> r.nodes, root |-> t.root, size |-> t.size - 1],
             removed |-> TRUE]
  ELSE [tree |-> t, removed |-> FALSE]

RECURSIVE leftmost_leaf(_, _)
leftmost_leaf(nodes, node) ==
  IF nodes[node].is_leaf THEN node
  ELSE leftmost_leaf(nodes, nodes[node].children[1])

RECURSIVE chain_walk(_, _, _)
chain_walk(nodes, node, result) ==
  IF node = NULL THEN result
  ELSE LET n == nodes[node] IN
       chain_walk(nodes, n.next_leaf,
                  result \o [i \in 1..Len(n.keys) |-> <<n.keys[i], n.values[i]>>])

\* the sequence of (key, value) pairs for_each hands to fn
BPlusTree_for_each(t) == chain_walk(t.nodes, leftmost_leaf(t.nodes, t.root), <<>>)

(***************************************************************************)
(* LRUCache (core/lru_cache.hpp).  list_ is kept front (most recently used)*)
(* to back; map_ maps a key to its list node, modelled by the key set;      *)
(* evict_cb tells whether evict_cb_ holds a callback.                      *)
(***************************************************************************)
LRUCache(capacity) ==
  [capacity |-> capacity, list |-> <<>>, map |-> {}, evict_cb |-> FALSE,
   hits |-> 0, misses |-> 0]

\* 1-based position in list_ of the node map_[key] points at
RECURSIVE list_pos(_, _, _)
list_pos(list, key, i) ==
  IF i > Len(list) THEN 0
  ELSE IF list[i].key = key THEN i
  ELSE list_pos(list, key, i + 1)

\* list_.splice(list_.begin(), list_, it): the node at position i moves to the front
splice_front(list, i) == <<list[i]>> \o SubSeq(list, 1, i - 1) \o SubSeq(list, i + 1, Len(list))

\* get that answers a hit without moving the entry to the front
LRUCache_get_nosplice(c, key) ==
  IF key \notin c.map
  THEN [cache |-> [c EXCEPT !.misses = c.misses + 1], ret |-> nullopt]
  ELSE [cache |-> [c EXCEPT !.hits = c.hits + 1],
        ret |-> Some(c.list[list_pos(c.list, key, 1)].value)]

\* get that counts a lookup of an absent key as a hit
LRUCache_get_misshit(c, key) ==
  IF key \notin c.map
  THEN [cache |-> [c EXCEPT !.hits = c.hits + 1], ret |-> nullopt]
  ELSE LET i == list_pos(c.list, key, 1) IN
       [cache |-> [c EXCEPT !.hits = c.hits + 1, !.list = splice_front(c.list, i)],
        ret |-> Some(c.list[i].value)]

\* [cache, ret]
LRUCache_get(c, key) ==
  IF key \notin c.map
  THEN [cache |-> [c EXCEPT !.misses = c.misses + 1], ret |-> nullopt]
  ELSE LET i == list_pos(c.list, key, 1) IN
       [cache |-> [c EXCEPT !.hits = c.hits + 1, !.list = splice_front(c.list, i)],
        ret |-> Some(c.list[i].value)]

\* put that moves an existing key to the front without replacing its value
LRUCache_put_keepold(c, key, value) ==
  IF key \in c.map
  THEN [c EXCEPT !.list = splice_front(c.list, list_pos(c.list, key, 1))]
  ELSE LET full == Len(c.list) = c.capacity
           lru == c.list[Len(c.list)]
           list1 == IF full THEN SubSeq(c.list, 1, Len(c.list) - 1) ELSE c.list
           map1 == IF full THEN c.map \ {lru.key} ELSE c.map
       IN [c EXCEPT !.list = <<[key |-> key, value |-> value]>> \o list1,
                    !.map = map1 \cup {key}]

\* put that inserts a new key without looking at the capacity
LRUCache_put_nolimit(c, key, value) ==
  IF key \in c.map
  THEN LET i == list_pos(c.list, key, 1) IN
       [c EXCEPT !.list = splice_front([c.list EXCEPT ![i].value = value], i)]
  ELSE [c EXCEPT !.list = <<[key |-> key, value |-> value]>> \o c.list,
                 !.map = c.map \cup {key}]

LRUCache_put(c, key, value) ==
  IF key \in c.map
  THEN LET i == list_pos(c.list, key, 1) IN
       [c EXCEPT !.list = splice_front([c.list EXCEPT ![i].value = value], i)]
  ELSE LET full == Len(c.list) = c.capacity
           lru == c.list[Len(c.list)]
           list1 == IF full THEN SubSeq(c.list, 1, Len(c.list) - 1) ELSE c.list
           map1 == IF full THEN c.map \ {lru.key} ELSE c.map
       IN [c EXCEPT !.list = <<[key |-> key, value |-> value]>> \o list1,
                    !.map = map1 \cup {key}]

\* evict that finds the key and returns without erasing it
LRUCache_evict_noop(c, key) == [cache |-> c, ret |-> key \in c.map]

\* [cache, ret]
LRUCache_evict(c, key) ==
  IF key \notin c.map
  THEN [cache |-> c, ret |-> FALSE]
  ELSE [cache |-> [c EXCEPT !.list = RemoveAt(c.list, list_pos(c.list, key, 1) - 1),
                            !.map = c.map \ {key}],
        ret |-> TRUE]

LRUCache_contains(c, key) == key \in c.map

LRUCache_set_evict_callback(c) == [c EXCEPT !.evict_cb = TRUE]

\* put that looks at the capacity before it looks for the key: the callback
\* also runs when a full cache is given a key it holds
LRUCache_put_calls_full(c, key) ==
  IF Len(c.list) = c.capacity /\ c.evict_cb
  THEN LET lru == c.list[Len(c.list)] IN
       <<[key |-> lru.key, value |-> lru.value,
          cached |-> lru.key \in c.map /\ list_pos(c.list, lru.key, 1) > 0]>>
  ELSE <<>>

\* the calls put(key, .) makes to evict_cb_: the arguments, and whether the
\* entry is still in list_ and map_ when the callback runs
LRUCache_put_calls(c, key) ==
  IF key \notin c.map /\ Len(c.list) = c.capacity /\ c.evict_cb
  THEN LET lru == c.list[Len(c.list)] IN
       <<[key |-> lru.key, value |-> lru.value,
          cached |-> lru.key \in c.map /\ list_pos(c.list, lru.key, 1) > 0]>>
  ELSE <<>>

LRUCache_size(c) == Len(c.list)

\* hit_rate() as the fraction <<numerator, denominator>>
LRUCache_hit_rate(c) ==
  LET total == c.hits + c.misses IN
  IF total # 0 THEN <<c.hits, total>> ELSE <<0, 1>>

LRUCache_clear(c) == [c EXCEPT !.list = <<>>, !.map = {}]

(***************************************************************************)
(* Record codec (customer_repository.hpp).  A file is a sequence of        *)
(* fixed-width words; a string is its length followed by its characters.   *)
(* The fifteen fields of Customer are represented by the id, one string    *)
(* field (name) and one scalar field (tier), written in that order.        *)
(***************************************************************************)
write_string(s) == <<Len(s)>> \o s

\* write_customer writing c.id where it should write c.tier
write_customer_wrongfield(c) == <<c.id>> \o write_string(c.name) \o <<c.id>>

write_customer(c) == <<c.id>> \o write_string(c.name) \o <<c.tier>>

\* [s, next]: the string read at position p of the bytes f
read_string(f, p) ==
  LET len == f[p] IN [s |-> SubSeq(f, p + 1, p + len), next |-> p + 1 + len]

\* [c, next]: the customer read at position p of the bytes f
read_customer(f, p) ==
  LET id == f[p]
      nm == read_string(f, p + 1)
  IN [c |-> [id |-> id, name |-> nm.s, tier |-> f[nm.next]], next |-> nm.next + 1]

\* store_ with store_[c.id] = c
store_set(st, c) == [k \in DOMAIN st \cup {c.id} |-> IF k = c.id THEN c ELSE st[k]]

\* store_ after store_.erase(id)
store_erase(st, id) == [k \in DOMAIN st \ {id} |-> st[k]]

EmptyStore == [k \in {} |-> 0]

RECURSIVE load_loop(_, _, _, _, _)
load_loop(f, p, i, st, idx) ==
  IF i = 0 THEN [store |-> st, index |-> idx]
  ELSE LET r == read_customer(f, p) IN
       load_loop(f, r.next, i - 1, store_set(st, r.c),
                 BPlusTree_insert(idx, r.c.id, r.c.id))

\* [store, index] after the constructor's load_all over the file fl; count
\* keeps its initial 0 when the read of the header finds no bytes
load_all(fl) ==
  IF ~fl.exists THEN [store |-> EmptyStore, index |-> BPlusTree]
  ELSE LET count == IF Len(fl.bytes) >= 1 THEN fl.bytes[1] ELSE 0 IN
       load_loop(fl.bytes, 2, count, EmptyStore, BPlusTree)

RECURSIVE write_records(_, _)
write_records(st, order) ==
  IF order = <<>> THEN <<>>
  ELSE write_customer(st[Head(order)]) \o write_records(st, Tail(order))

\* the bytes flush writes; order is the iteration order of store_
flush_bytes(st, order) == <<Cardinality(DOMAIN st)>> \o write_records(st, order)

\* the iteration orders an unordered_map with these keys can have
Orders(S) == {o \in [1..Cardinality(S) -> S] : \A i, j \in DOMAIN o : i # j => o[i] # o[j]}

(***************************************************************************)
(* CustomerRepository (repository/customer_repository.hpp), one caller:    *)
(* every public operation is one action.  last records the operation       *)
(* called, its arguments, whether it took the repository's mutex_ (locked) *)
(* and what it returned (threw: it raised std::runtime_error); dirty       *)
(* records that a flush has thrown since the last completed flush or       *)
(* construction; failures counts the flushes that could not open the file. *)
(***************************************************************************)
Ids == 1..MaxId

NoCustomer == [id |-> 0, name |-> <<>>, tier |-> 0]

\* the customers callers hand to the repository: two records per id
CustomersOf(I) ==
  {[id |-> i, name |-> <<>>, tier |-> 0] : i \in I} \cup
  {[id |-> i, name |-> <<2, 1>>, tier |-> 3] : i \in I}

NoOp ==
  [op |-> "none", e |-> NoCustomer, id |-> 0, lo |-> 0, hi |-> 0,
   ok |-> FALSE, threw |-> FALSE, locked |-> FALSE, val |-> nullopt,
   list |-> <<>>, ids |-> <<>>, cb |-> <<>>, n |-> 0, rate |-> <<0, 1>>]

NoFile == [exists |-> FALSE, bytes |-> <<>>]

\* the file after flush(): opening fails (ok = FALSE, the file is left as
\* it was and flush throws) or the file is rewritten from store_
flush(st, fl, ok, order) ==
  IF ok THEN [exists |-> TRUE, bytes |-> flush_bytes(st, order)] ELSE fl

\* the join of find_range: the stored customers of the ids, in the order given
RECURSIVE join_ids(_, _)
join_ids(st, ids) ==
  IF ids = <<>> THEN <<>>
  ELSE IF Head(ids)[1] \in DOMAIN st
       THEN <<st[Head(ids)[1]]>> \o join_ids(st, Tail(ids))
       ELSE join_ids(st, Tail(ids))

find_range_result(st, idx, lo, hi) == join_ids(st, BPlusTree_range(idx, lo, hi))

\* what opening the file for writing can do: succeed, or fail while
\* failures are still within the cap
OpenOutcomes == IF failures < MaxFailures THEN BOOLEAN ELSE {TRUE}

Init ==
  /\ store = EmptyStore
  /\ index = BPlusTree
  /\ cache = LRUCache(CacheCapacity)
  /\ file = NoFile
  /\ last = NoOp
  /\ dirty = FALSE
  /\ failures = 0
  /\ pc = <<>>
  /\ loc = <<>>
  /\ mutex = 0
  /\ cmutex = 0
  /\ shadow = EmptyStore
  /\ gen = <<>>
  /\ clock = <<>>
  /\ ref = <<>>

save(c) ==
  /\ index.size < MaxIndex
  /\ Len(index.nodes) < MaxNodes
  /\ LET st == store_set(store, c) IN
     /\ store' = st
     /\ index' = BPlusTree_insert(index, c.id, c.id)
     /\ cache' = LRUCache_put(cache, c.id, c)
     /\ \E ok \in OpenOutcomes, order \in Orders(DOMAIN st) :
          /\ file' = flush(st, file, ok, order)
          /\ dirty' = ~ok
          /\ failures' = IF ok THEN failures ELSE failures + 1
          /\ last' = [NoOp EXCEPT !.op = "save", !.e = c, !.id = c.id, !.locked = TRUE,
                              !.threw = ~ok]
  /\ UNCHANGED <<thrVars, ref, snowVars>>

update(c) ==
  /\ IF c.id \notin DOMAIN store
     THEN /\ last' = [NoOp EXCEPT !.op = "update", !.e = c, !.id = c.id,
                                  !.locked = TRUE, !.ok = FALSE]
          /\ UNCHANGED <<store, index, cache, file, dirty, failures>>
     ELSE LET st == store_set(store, c) IN
          /\ store' = st
          /\ index' = BPlusTree_update(index, c.id, c.id).tree
          /\ cache' = LRUCache_put(cache, c.id, c)
          /\ \E ok \in OpenOutcomes, order \in Orders(DOMAIN st) :
               /\ file' = flush(st, file, ok, order)
               /\ dirty' = ~ok
               /\ failures' = IF ok THEN failures ELSE failures + 1
               /\ last' = [NoOp EXCEPT !.op = "update", !.e = c, !.id = c.id,
                                       !.locked = TRUE, !.ok = ok, !.threw = ~ok]
  /\ UNCHANGED <<thrVars, ref, snowVars>>

remove(id) ==
  /\ IF id \notin DOMAIN store
     THEN /\ last' = [NoOp EXCEPT !.op = "remove", !.id = id, !.locked = TRUE,
                                  !.ok = FALSE]
          /\ UNCHANGED <<store, index, cache, file, dirty, failures>>
     ELSE LET st == store_erase(store, id) IN
          /\ store' = st
          /\ index' = BPlusTree_remove(index, id).tree
          /\ cache' = LRUCache_evict(cache, id).cache
          /\ \E ok \in OpenOutcomes, order \in Orders(DOMAIN st) :
               /\ file' = flush(st, file, ok, order)
               /\ dirty' = ~ok
               /\ failures' = IF ok THEN failures ELSE failures + 1
               /\ last' = [NoOp EXCEPT !.op = "remove", !.id = id, !.locked = TRUE,
                                       !.ok = ok, !.threw = ~ok]
  /\ UNCHANGED <<thrVars, ref, snowVars>>

find_by_id(id) ==
  /\ cache.hits + cache.misses < MaxGets
  /\ LET cached == LRUCache_get(cache, id) IN
     IF cached.ret # nullopt
     THEN /\ cache' = cached.cache
          /\ last' = [NoOp EXCEPT !.op = "find_by_id", !.id = id, !.val = cached.ret]
     ELSE IF id \notin DOMAIN store
     THEN /\ cache' = cached.cache
          /\ last' = [NoOp EXCEPT !.op = "find_by_id", !.id = id, !.locked = TRUE,
                                  !.val = nullopt]
     ELSE /\ cache' = LRUCache_put(cached.cache, id, store[id])
          /\ last' = [NoOp EXCEPT !.op = "find_by_id", !.id = id, !.locked = TRUE,
                                  !.val = Some(store[id])]
  /\ UNCHANGED <<store, index, file, dirty, failures, thrVars, ref, snowVars>>

find_range(lo, hi) ==
  /\ last' = [NoOp EXCEPT !.op = "find_range", !.lo = lo, !.hi = hi,
                          !.locked = TRUE,
                          !.list = find_range_result(store, index, lo, hi)]
  /\ UNCHANGED <<repoVars, thrVars, ref, snowVars>>

\* the process ends and a new CustomerRepository is constructed on the same
\* data directory
Restart ==
  /\ LET l == load_all(file) IN
     /\ store' = l.store
     /\ index' = l.index
  /\ cache' = LRUCache(CacheCapacity)
  /\ dirty' = FALSE
  /\ last' = [NoOp EXCEPT !.op = "construct"]
  /\ UNCHANGED <<file, failures, thrVars, ref, snowVars>>

Next ==
  \/ \E c \in CustomersOf(Ids) : save(c)
  \/ \E c \in CustomersOf(Ids) : update(c)
  \/ \E id \in Ids : remove(id)
  \/ \E id \in Ids : find_by_id(id)
  \/ \E lo \in Ids, hi \in Ids : find_range(lo, hi)
  \/ Restart

Spec == Init /\ [][Next]_vars

(***************************************************************************)
(* CustomerRepository called from several threads.  pc[t] is the statement *)
(* thread t is about to execute, loc[t] its operation, arguments, locals   *)
(* and (at "done") what it returned; mutex is the holder of the            *)
(* repository's mutex_, cmutex the holder of the cache's mutex_ (0: free). *)
(* A std::lock_guard is released when its function returns or throws.      *)
(* shadow is the map obtained by applying the mutating operations one      *)
(* after the other, each as a whole, in the order they took mutex_.        *)
(***************************************************************************)
Threads == 1..NThreads
ConcIds == 1..MaxIdConc

Mutators == {"save", "update", "remove"}

InitConc ==
  /\ store = EmptyStore
  /\ index = BPlusTree
  /\ cache = LRUCache(CacheCapacity)
  /\ file = NoFile
  /\ last = NoOp
  /\ dirty = FALSE
  /\ failures = 0
  /\ pc = [t \in Threads |-> "idle"]
  /\ loc = [t \in Threads |-> NoOp]
  /\ mutex = 0
  /\ cmutex = 0
  /\ shadow = EmptyStore
  /\ gen = <<>>
  /\ clock = <<>>
  /\ ref = <<>>

\* the map after the operation of l is applied to the map m as a whole
applied(m, l) ==
  CASE l.op = "save" -> store_set(m, l.e)
    [] l.op = "update" /\ l.id \in DOMAIN m -> store_set(m, l.e)
    [] l.op = "remove" -> store_erase(m, l.id)
    [] OTHER -> m

\* t goes to statement p with locals l
Goto(t, p, l) == pc' = [pc EXCEPT ![t] = p] /\ loc' = [loc EXCEPT ![t] = l]

\* a caller enters save, update, remove or find_all: next is the lock_guard
call_locked(t) ==
  /\ pc[t] = "idle"
  /\ \/ \E c \in CustomersOf(ConcIds) :
          /\ index.size < MaxIndexConc
          /\ Goto(t, "lock", [NoOp EXCEPT !.op = "save", !.e = c, !.id = c.id])
     \/ \E c \in CustomersOf(ConcIds) :
          Goto(t, "lock", [NoOp EXCEPT !.op = "update", !.e = c, !.id = c.id])
     \/ \E id \in ConcIds :
          Goto(t, "lock", [NoOp EXCEPT !.op = "remove", !.id = id])
     \/ Goto(t, "lock", [NoOp EXCEPT !.op = "find_all"])
  /\ UNCHANGED <<repoVars, last, ref, snowVars, mutex, cmutex, shadow>>

\* a caller enters find_by_id: next is cache_.get, with no repository lock
call_find_by_id(t) ==
  /\ pc[t] = "idle"
  /\ cache.hits + cache.misses < MaxGets
  /\ \E id \in ConcIds :
       Goto(t, "get_lock", [NoOp EXCEPT !.op = "find_by_id", !.id = id])
  /\ UNCHANGED <<repoVars, last, ref, snowVars, mutex, cmutex, shadow>>

\* a caller enters find_range: next is index_.range, with no lock
call_find_range(t) ==
  /\ pc[t] = "idle"
  /\ \E lo \in ConcIds, hi \in ConcIds :
       Goto(t, "range", [NoOp EXCEPT !.op = "find_range", !.lo = lo, !.hi = hi])
  /\ UNCHANGED <<repoVars, last, ref, snowVars, mutex, cmutex, shadow>>

\* the operation goes on without waiting for mutex_ to be free
lock_nowait(t) ==
  /\ pc[t] = "lock"
  /\ mutex' = t
  /\ Goto(t, CASE loc[t].op \in Mutators -> "store"
               [] loc[t].op = "find_all" -> "scan"
               [] loc[t].op = "find_by_id" -> "lookup"
               [] loc[t].op = "find_range" -> "join",
          [loc[t] EXCEPT !.locked = TRUE])
  /\ shadow' = applied(shadow, loc[t])
  /\ UNCHANGED <<repoVars, last, ref, snowVars, cmutex>>

\* std::lock_guard<std::mutex> lock(mutex_)
lock(t) ==
  /\ pc[t] = "lock"
  /\ mutex = 0
  /\ mutex' = t
  /\ Goto(t, CASE loc[t].op \in Mutators -> "store"
               [] loc[t].op = "find_all" -> "scan"
               [] loc[t].op = "find_by_id" -> "lookup"
               [] loc[t].op = "find_range" -> "join",
          [loc[t] EXCEPT !.locked = TRUE])
  /\ shadow' = applied(shadow, loc[t])
  /\ UNCHANGED <<repoVars, last, ref, snowVars, cmutex>>

\* store_[id] = customer (save, update) or store_.erase(id) (remove);
\* update and remove return false when the id is not stored
store_step(t) ==
  /\ pc[t] = "store"
  /\ LET l == loc[t] IN
     IF l.op # "save" /\ l.id \notin DOMAIN store
     THEN /\ Goto(t, "done", [l EXCEPT !.ok = FALSE])
          /\ mutex' = 0
          /\ UNCHANGED store
     ELSE /\ store' = IF l.op = "remove" THEN store_erase(store, l.id)
                      ELSE store_set(store, l.e)
          /\ Goto(t, "index", l)
          /\ UNCHANGED mutex
  /\ UNCHANGED <<index, cache, file, dirty, failures, last, ref, snowVars, cmutex, shadow>>

\* index_.insert (save), index_.update (update), index_.remove (remove)
index_step(t) ==
  /\ pc[t] = "index"
  /\ LET l == loc[t] IN
     index' = CASE l.op = "save" -> BPlusTree_insert(index, l.id, l.id)
                [] l.op = "update" -> BPlusTree_update(index, l.id, l.id).tree
                [] l.op = "remove" -> BPlusTree_remove(index, l.id).tree
  /\ pc' = [pc EXCEPT ![t] = "cache_lock"]
  /\ UNCHANGED <<store, cache, file, dirty, failures, last, ref, snowVars, loc, mutex, cmutex, shadow>>

\* the lock_guard inside LRUCache::put / evict
cache_lock(t) ==
  /\ pc[t] = "cache_lock"
  /\ cmutex = 0
  /\ cmutex' = t
  /\ pc' = [pc EXCEPT ![t] = "cache_op"]
  /\ UNCHANGED <<repoVars, last, ref, snowVars, loc, mutex, shadow>>

\* the body of cache_.put / cache_.evict and its return; find_by_id then
\* returns the record it looked up
cache_op(t) ==
  /\ pc[t] = "cache_op"
  /\ cmutex' = 0
  /\ LET l == loc[t] IN
     /\ cache' = CASE l.op = "remove" -> LRUCache_evict(cache, l.id).cache
                   [] l.op = "find_by_id" -> LRUCache_put(cache, l.id, l.val[1])
                   [] OTHER -> LRUCache_put(cache, l.id, l.e)
     /\ IF l.op = "find_by_id"
        THEN mutex' = 0 /\ Goto(t, "done", l)
        ELSE UNCHANGED mutex /\ Goto(t, "flush_open", l)
  /\ UNCHANGED <<store, index, file, dirty, failures, last, ref, snowVars, shadow>>

\* flush under a mutex_ locked and unlocked by hand: the throw skips the unlock
flush_open_nounlock(t) ==
  /\ pc[t] = "flush_open"
  /\ \E ok \in OpenOutcomes :
       IF ok
       THEN /\ file' = [exists |-> TRUE, bytes |-> <<>>]
            /\ pc' = [pc EXCEPT ![t] = "flush_write"]
            /\ UNCHANGED <<dirty, failures, loc, mutex>>
       ELSE /\ Goto(t, "done", [loc[t] EXCEPT !.threw = TRUE])
            /\ UNCHANGED mutex
            /\ dirty' = TRUE
            /\ failures' = failures + 1
            /\ UNCHANGED file
  /\ UNCHANGED <<store, index, cache, last, ref, snowVars, cmutex, shadow>>

\* flush(): std::ofstream f(data_file_, binary | trunc); throws when the
\* file cannot be opened
flush_open(t) ==
  /\ pc[t] = "flush_open"
  /\ \E ok \in OpenOutcomes :
       IF ok
       THEN /\ file' = [exists |-> TRUE, bytes |-> <<>>]
            /\ pc' = [pc EXCEPT ![t] = "flush_write"]
            /\ UNCHANGED <<dirty, failures, loc, mutex>>
       ELSE /\ Goto(t, "done", [loc[t] EXCEPT !.threw = TRUE])
            /\ mutex' = 0
            /\ dirty' = TRUE
            /\ failures' = failures + 1
            /\ UNCHANGED file
  /\ UNCHANGED <<store, index, cache, last, ref, snowVars, cmutex, shadow>>

\* flush(): the count and every record are written; the operation returns
flush_write(t) ==
  /\ pc[t] = "flush_write"
  /\ \E order \in Orders(DOMAIN store) :
       file' = flush(store, file, TRUE, order)
  /\ dirty' = FALSE
  /\ mutex' = 0
  /\ Goto(t, "done", [loc[t] EXCEPT !.ok = (loc[t].op # "save")])
  /\ UNCHANGED <<store, index, cache, failures, last, ref, snowVars, cmutex, shadow>>

\* the lock_guard inside LRUCache::get
get_lock(t) ==
  /\ pc[t] = "get_lock"
  /\ cmutex = 0
  /\ cmutex' = t
  /\ pc' = [pc EXCEPT ![t] = "get"]
  /\ UNCHANGED <<repoVars, last, ref, snowVars, loc, mutex, shadow>>

\* find_by_id that looks the record up in store_ from inside the cache's
\* critical section: on a miss the cache's mutex is still held at mutex_
get_step_holding(t) ==
  /\ pc[t] = "get"
  /\ LET cached == LRUCache_get(cache, loc[t].id) IN
     /\ cache' = cached.cache
     /\ IF cached.ret # nullopt
        THEN cmutex' = 0 /\ Goto(t, "done", [loc[t] EXCEPT !.val = cached.ret])
        ELSE cmutex' = t /\ Goto(t, "lock", loc[t])
  /\ UNCHANGED <<store, index, file, dirty, failures, last, ref, snowVars, mutex, shadow>>

\* the body of cache_.get; find_by_id returns the cached record on a hit
get_step(t) ==
  /\ pc[t] = "get"
  /\ cmutex' = 0
  /\ LET cached == LRUCache_get(cache, loc[t].id) IN
     /\ cache' = cached.cache
     /\ IF cached.ret # nullopt
        THEN Goto(t, "done", [loc[t] EXCEPT !.val = cached.ret])
        ELSE Goto(t, "lock", loc[t])
  /\ UNCHANGED <<store, index, file, dirty, failures, last, ref, snowVars, mutex, shadow>>

\* find_by_id after a miss: store_.find(id)
lookup(t) ==
  /\ pc[t] = "lookup"
  /\ IF loc[t].id \notin DOMAIN store
     THEN mutex' = 0 /\ Goto(t, "done", [loc[t] EXCEPT !.val = nullopt])
     ELSE UNCHANGED mutex
          /\ Goto(t, "cache_lock", [loc[t] EXCEPT !.val = Some(store[loc[t].id])])
  /\ UNCHANGED <<repoVars, last, ref, snowVars, cmutex, shadow>>

\* find_range: auto ids = index_.range(lo, hi), before the lock_guard
range_step(t) ==
  /\ pc[t] = "range"
  /\ Goto(t, "lock", [loc[t] EXCEPT !.ids = BPlusTree_range(index, loc[t].lo, loc[t].hi)])
  /\ UNCHANGED <<repoVars, last, ref, snowVars, mutex, cmutex, shadow>>

\* find_range: the loop over ids under the lock, and the return
join(t) ==
  /\ pc[t] = "join"
  /\ mutex' = 0
  /\ Goto(t, "done", [loc[t] EXCEPT !.list = join_ids(store, loc[t].ids)])
  /\ UNCHANGED <<repoVars, last, ref, snowVars, cmutex, shadow>>

\* find_all: the loop over store_ under the lock, and the return
scan(t) ==
  /\ pc[t] = "scan"
  /\ mutex' = 0
  /\ \E order \in Orders(DOMAIN store) :
       Goto(t, "done", [loc[t] EXCEPT !.list = [i \in DOMAIN order |-> store[order[i]]]])
  /\ UNCHANGED <<repoVars, last, ref, snowVars, cmutex, shadow>>

\* the caller has taken the result
return(t) ==
  /\ pc[t] = "done"
  /\ Goto(t, "idle", NoOp)
  /\ UNCHANGED <<repoVars, last, ref, snowVars, mutex, cmutex, shadow>>

\* the process ends, at any point of any operation, and a new one constructs
\* the repository on the same data directory
crash_restart ==
  /\ LET l == load_all(file) IN
     /\ store' = l.store
     /\ index' = l.index
     /\ shadow' = l.store
  /\ cache' = LRUCache(CacheCapacity)
  /\ dirty' = FALSE
  /\ pc' = [t \in Threads |-> "idle"]
  /\ loc' = [t \in Threads |-> NoOp]
  /\ mutex' = 0
  /\ cmutex' = 0
  /\ UNCHANGED <<file, failures, last, ref, snowVars>>

\* the statements of an operation under way in thread t
step(t) ==
  \/ lock(t)
  \/ store_step(t)
  \/ index_step(t)
  \/ cache_lock(t)
  \/ cache_op(t)
  \/ flush_open(t)
  \/ flush_write(t)
  \/ get_lock(t)
  \/ get_step(t)
  \/ lookup(t)
  \/ range_step(t)
  \/ join(t)
  \/ scan(t)
  \/ return(t)

NextConc ==
  \/ crash_restart
  \/ \E t \in Threads : call_locked(t) \/ call_find_by_id(t) \/ call_find_range(t)
  \/ \E t \in Threads : step(t)

SpecConc == InitConc /\ [][NextConc]_vars

(***************************************************************************)
(* BPlusTree<Key, Value> on its own, one caller: every public operation is *)
(* one action on index.  last records the call and what it returned.  ref  *)
(* is the bookkeeping of the caller: cnt[k] the inserts of k minus the     *)
(* removes of k that returned true, val[k] the value last handed to an     *)
(* insert or a successful update of k, dup whether some insert was given a *)
(* key that was present, mods the remove and update calls made so far,     *)
(* drain whether the caller keeps the tree small and removes more often.   *)
(***************************************************************************)
TreeKeys == 1..MaxKey

\* the value update hands over for k
NewValue(k) == k + MaxKey

InitTree ==
  /\ store = EmptyStore
  /\ index = BPlusTree
  /\ cache = LRUCache(CacheCapacity)
  /\ file = NoFile
  /\ last = NoOp
  /\ dirty = FALSE
  /\ failures = 0
  /\ pc = <<>>
  /\ loc = <<>>
  /\ mutex = 0
  /\ cmutex = 0
  /\ shadow = EmptyStore
  /\ gen = <<>>
  /\ clock = <<>>
  /\ ref = [cnt |-> [k \in TreeKeys |-> 0], val |-> [k \in TreeKeys |-> 0],
            dup |-> FALSE, mods |-> 0, drain |-> FALSE]

restVars == <<store, cache, file, dirty, failures, thrVars, snowVars>>

\* the value insert hands over for k: k itself while k is absent, and a
\* value of its own for each further entry with key k
InsertValue(k) == k + 2 * MaxKey * ref.cnt[k]

\* the keys the caller inserts next: a key that is present, and any key
\* once that has happened, only up to MaxFreeKey
Insertable(k) ==
  IF k <= MaxFreeKey THEN ~ref.drain \/ ref.cnt[k] = 0
  ELSE ref.cnt[k - 1] > 0 /\ ref.cnt[k] = 0 /\ ~ref.dup

tree_insert(k, v) ==
  /\ Insertable(k)
  /\ index.size < (IF ref.drain THEN MaxDrainSize
                   ELSE IF ref.dup \/ ref.cnt[k] > 0 THEN MaxDupSize
                   ELSE MaxTreeSize)
  /\ index' = BPlusTree_insert(index, k, v)
  /\ ref' = [ref EXCEPT !.cnt[k] = @ + 1, !.val[k] = v,
                        !.dup = @ \/ ref.cnt[k] > 0]
  /\ last' = [NoOp EXCEPT !.op = "insert", !.id = k, !.val = Some(v)]
  /\ UNCHANGED restVars

tree_search(k) ==
  /\ last' = [NoOp EXCEPT !.op = "search", !.id = k,
                          !.val = BPlusTree_search(index, k)]
  /\ UNCHANGED <<index, ref, restVars>>

tree_range(lo, hi) ==
  /\ last' = [NoOp EXCEPT !.op = "range", !.lo = lo, !.hi = hi,
                          !.ids = BPlusTree_range(index, lo, hi)]
  /\ UNCHANGED <<index, ref, restVars>>

tree_update(k, v) ==
  /\ ref.mods < (IF ref.drain THEN MaxDrainMods ELSE MaxMods)
  /\ LET r == BPlusTree_update(index, k, v) IN
     /\ index' = r.tree
     /\ ref' = [ref EXCEPT !.val[k] = IF r.found THEN v ELSE @,
                           !.mods = @ + 1]
     /\ last' = [NoOp EXCEPT !.op = "update", !.id = k, !.val = Some(v),
                             !.ok = r.found]
  /\ UNCHANGED restVars

tree_remove(k) ==
  /\ ref.mods < (IF ref.drain THEN MaxDrainMods ELSE MaxMods)
  /\ LET r == BPlusTree_remove(index, k) IN
     /\ index' = r.tree
     /\ ref' = [ref EXCEPT !.cnt[k] = IF r.removed THEN @ - 1 ELSE @,
                           !.mods = @ + 1]
     /\ last' = [NoOp EXCEPT !.op = "remove", !.id = k, !.ok = r.removed]
  /\ UNCHANGED restVars

tree_for_each ==
  /\ last' = [NoOp EXCEPT !.op = "for_each", !.ids = BPlusTree_for_each(index)]
  /\ UNCHANGED <<index, ref, restVars>>

NextTree ==
  \/ \E k \in TreeKeys : tree_insert(k, InsertValue(k))
  \/ \E k \in TreeKeys : tree_search(k)
  \/ \E lo \in TreeKeys, hi \in TreeKeys :
       lo <= hi /\ hi - lo <= MaxSpan /\ tree_range(lo, hi)
  \/ \E k \in TreeKeys : tree_update(k, NewValue(k))
  \/ \E k \in TreeKeys : tree_remove(k)
  \/ tree_for_each

SpecTree == InitTree /\ [][NextTree]_vars

\* the same caller on a tree of at most MaxDrainSize entries with distinct
\* keys, with up to MaxDrainMods remove and update calls, enough to empty a
\* tree that has split
InitTreeDrain ==
  /\ store = EmptyStore
  /\ index = BPlusTree
  /\ cache = LRUCache(CacheCapacity)
  /\ file = NoFile
  /\ last = NoOp
  /\ dirty = FALSE
  /\ failures = 0
  /\ pc = <<>>
  /\ loc = <<>>
  /\ mutex = 0
  /\ cmutex = 0
  /\ shadow = EmptyStore
  /\ gen = <<>>
  /\ clock = <<>>
  /\ ref = [cnt |-> [k \in TreeKeys |-> 0], val |-> [k \in TreeKeys |-> 0],
            dup |-> FALSE, mods |-> 0, drain |-> TRUE]

SpecTreeDrain == InitTreeDrain /\ [][NextTree]_vars

(***************************************************************************)
(* LRUCache<Key, Value> on its own, one caller: every public operation is  *)
(* one action on cache.  last records the call, what it returned and the   *)
(* calls it made to the eviction callback (cb).  ref is the bookkeeping of *)
(* the caller: order lists the keys by their last promotion (a get that    *)
(* hit or a put), oldest first; gets counts the get calls.                 *)
(***************************************************************************)
LruKeys == 1..MaxLruKey

\* the values put hands over for k
LruValues(k) == {k, k + MaxLruKey}

InitLRU ==
  /\ store = EmptyStore
  /\ index = BPlusTree
  /\ cache = LRUCache(LruCapacity)
  /\ file = NoFile
  /\ last = NoOp
  /\ dirty = FALSE
  /\ failures = 0
  /\ pc = <<>>
  /\ loc = <<>>
  /\ mutex = 0
  /\ cmutex = 0
  /\ shadow = EmptyStore
  /\ gen = <<>>
  /\ clock = <<>>
  /\ ref = [order |-> <<>>, gets |-> 0]

lruRest == <<store, index, file, dirty, failures, thrVars, snowVars>>

\* order after key is promoted
Promoted(order, key) == SelectSeq(order, LAMBDA k : k # key) \o <<key>>

lru_get(k) ==
  /\ ref.gets < MaxLruGets
  /\ LET r == LRUCache_get(cache, k) IN
     /\ cache' = r.cache
     /\ last' = [NoOp EXCEPT !.op = "get", !.id = k, !.val = r.ret]
     /\ ref' = [ref EXCEPT !.gets = @ + 1,
                           !.order = IF r.ret # nullopt THEN Promoted(@, k) ELSE @]
  /\ UNCHANGED lruRest

lru_put(k, v) ==
  /\ cache' = LRUCache_put(cache, k, v)
  /\ last' = [NoOp EXCEPT !.op = "put", !.id = k, !.val = Some(v),
                          !.cb = LRUCache_put_calls(cache, k)]
  /\ ref' = [ref EXCEPT !.order = Promoted(@, k)]
  /\ UNCHANGED lruRest

lru_evict(k) ==
  /\ LET r == LRUCache_evict(cache, k) IN
     /\ cache' = r.cache
     /\ last' = [NoOp EXCEPT !.op = "evict", !.id = k, !.ok = r.ret]
  /\ UNCHANGED <<ref, lruRest>>

lru_contains(k) ==
  /\ last' = [NoOp EXCEPT !.op = "contains", !.id = k,
                          !.ok = LRUCache_contains(cache, k)]
  /\ UNCHANGED <<cache, ref, lruRest>>

lru_set_evict_callback ==
  /\ cache' = LRUCache_set_evict_callback(cache)
  /\ last' = [NoOp EXCEPT !.op = "set_evict_callback"]
  /\ UNCHANGED <<ref, lruRest>>

\* size(), hits(), misses() and hit_rate()
lru_stats ==
  /\ \/ last' = [NoOp EXCEPT !.op = "size", !.n = LRUCache_size(cache)]
     \/ last' = [NoOp EXCEPT !.op = "hits", !.n = cache.hits]
     \/ last' = [NoOp EXCEPT !.op = "misses", !.n = cache.misses]
     \/ last' = [NoOp EXCEPT !.op = "hit_rate", !.rate = LRUCache_hit_rate(cache)]
  /\ UNCHANGED <<cache, ref, lruRest>>

lru_clear ==
  /\ cache' = LRUCache_clear(cache)
  /\ last' = [NoOp EXCEPT !.op = "clear"]
  /\ UNCHANGED <<ref, lruRest>>

NextLRU ==
  \/ \E k \in LruKeys : lru_get(k)
  \/ \E k \in LruKeys : \E v \in LruValues(k) : lru_put(k, v)
  \/ \E k \in LruKeys : lru_evict(k)
  \/ \E k \in LruKeys : lru_contains(k)
  \/ lru_set_evict_callback
  \/ lru_stats
  \/ lru_clear

SpecLRU == InitLRU /\ [][NextLRU]_vars

(***************************************************************************)
(* LRUCache called from several threads.  get, put, evict, contains and    *)
(* clear take the cache's mutex_ (cmutex) with a lock_guard, run their     *)
(* body and release it on return; set_evict_callback, size, hits, misses   *)
(* and hit_rate have no lock_guard.  A read made while another thread is   *)
(* inside a body is a data race: it yields what the members hold before or *)
(* after that body.                                                        *)
(***************************************************************************)
LruConcKeys == 1..MaxLruKeyConc

LockedOps == {"get", "put", "evict", "contains", "clear"}
UnlockedOps == {"set_evict_callback", "size", "hits", "misses", "hit_rate"}

InitLRUConc ==
  /\ store = EmptyStore
  /\ index = BPlusTree
  /\ cache = LRUCache(CacheCapacity)
  /\ file = NoFile
  /\ last = NoOp
  /\ dirty = FALSE
  /\ failures = 0
  /\ pc = [t \in Threads |-> "idle"]
  /\ loc = [t \in Threads |-> NoOp]
  /\ mutex = 0
  /\ cmutex = 0
  /\ shadow = EmptyStore
  /\ gen = <<>>
  /\ clock = <<>>
  /\ ref = <<>>

lruConcRest == <<store, index, file, last, dirty, failures, mutex, shadow, ref,
                 snowVars>>

\* the cache after the body of the operation l
lru_effect(c, l) ==
  CASE l.op = "get" -> LRUCache_get(c, l.id).cache
    [] l.op = "put" -> LRUCache_put(c, l.id, l.val[1])
    [] l.op = "evict" -> LRUCache_evict(c, l.id).cache
    [] l.op = "clear" -> LRUCache_clear(c)
    [] OTHER -> c

\* what the members read by an unlocked operation of t can hold: the
\* current ones, or those a body under way in another thread leaves
lru_seen(t) ==
  {cache} \cup {lru_effect(cache, loc[u]) : u \in {x \in Threads : x # t /\ pc[x] = "c_body"}}

\* a caller enters get, put, evict, contains or clear: next is the lock_guard
lru_call_locked(t) ==
  /\ pc[t] = "idle"
  /\ \/ \E k \in LruConcKeys :
          /\ cache.hits + cache.misses < MaxLruGets
          /\ Goto(t, "c_lock", [NoOp EXCEPT !.op = "get", !.id = k])
     \/ \E k \in LruConcKeys :
          Goto(t, "c_lock", [NoOp EXCEPT !.op = "put", !.id = k, !.val = Some(k)])
     \/ \E k \in LruConcKeys :
          Goto(t, "c_lock", [NoOp EXCEPT !.op = "evict", !.id = k])
     \/ \E k \in LruConcKeys :
          Goto(t, "c_lock", [NoOp EXCEPT !.op = "contains", !.id = k])
     \/ Goto(t, "c_lock", [NoOp EXCEPT !.op = "clear"])
  /\ UNCHANGED <<cache, cmutex, lruConcRest>>

\* a caller enters set_evict_callback, size, hits, misses or hit_rate
lru_call_unlocked(t) ==
  /\ pc[t] = "idle"
  /\ \E o \in UnlockedOps : Goto(t, "c_unlocked", [NoOp EXCEPT !.op = o])
  /\ UNCHANGED <<cache, cmutex, lruConcRest>>

\* std::lock_guard<std::mutex> lock(mutex_) of the cache
lru_lock(t) ==
  /\ pc[t] = "c_lock"
  /\ cmutex = 0
  /\ cmutex' = t
  /\ Goto(t, "c_body", [loc[t] EXCEPT !.locked = TRUE])
  /\ UNCHANGED <<cache, lruConcRest>>

\* the body of get, put, evict, contains or clear and the return, which
\* releases the lock_guard
lru_body(t) ==
  /\ pc[t] = "c_body"
  /\ cache' = lru_effect(cache, loc[t])
  /\ cmutex' = 0
  /\ Goto(t, "c_done",
          CASE loc[t].op = "get" ->
                 [loc[t] EXCEPT !.val = LRUCache_get(cache, loc[t].id).ret]
            [] loc[t].op = "put" ->
                 [loc[t] EXCEPT !.cb = LRUCache_put_calls(cache, loc[t].id)]
            [] loc[t].op = "evict" ->
                 [loc[t] EXCEPT !.ok = LRUCache_evict(cache, loc[t].id).ret]
            [] loc[t].op = "contains" ->
                 [loc[t] EXCEPT !.ok = LRUCache_contains(cache, loc[t].id)]
            [] OTHER -> loc[t])
  /\ UNCHANGED lruConcRest

\* the body of set_evict_callback, size, hits, misses or hit_rate
lru_unlocked(t) ==
  /\ pc[t] = "c_unlocked"
  /\ IF loc[t].op = "set_evict_callback"
     THEN /\ cache' = LRUCache_set_evict_callback(cache)
          /\ Goto(t, "c_done", loc[t])
     ELSE /\ \E c \in lru_seen(t) :
               Goto(t, "c_done",
                    CASE loc[t].op = "size" -> [loc[t] EXCEPT !.n = LRUCache_size(c)]
                      [] loc[t].op = "hits" -> [loc[t] EXCEPT !.n = c.hits]
                      [] loc[t].op = "misses" -> [loc[t] EXCEPT !.n = c.misses]
                      [] loc[t].op = "hit_rate" ->
                           [loc[t] EXCEPT !.rate = LRUCache_hit_rate(c)])
          /\ UNCHANGED cache
  /\ UNCHANGED <<cmutex, lruConcRest>>

\* the caller has taken the result
lru_return(t) ==
  /\ pc[t] = "c_done"
  /\ Goto(t, "idle", NoOp)
  /\ UNCHANGED <<cache, cmutex, lruConcRest>>

NextLRUConc ==
  \E t \in Threads :
    \/ lru_call_locked(t)
    \/ lru_call_unlocked(t)
    \/ lru_lock(t)
    \/ lru_body(t)
    \/ lru_unlocked(t)
    \/ lru_return(t)

SpecLRUConc == InitLRUConc /\ [][NextLRUConc]_vars

(***************************************************************************)
(* SnowflakeGenerator (core/snowflake.hpp).  int64_t keeps its width: a    *)
(* value is its 64-bit two's-complement pattern, four 16-bit limbs with    *)
(* the least significant limb first.  worker_id_ and sequence_ stay within *)
(* 0..MAX_WORKER and 0..MAX_SEQ, so they are kept as plain integers and    *)
(* widened where they meet a timestamp.                                    *)
(***************************************************************************)
Limb == 2^16

\* the int64_t with the value of the small integer n
int64_t(n) ==
  <<n % Limb, (n \div Limb) % Limb,
    IF n < 0 THEN Limb - 1 ELSE 0, IF n < 0 THEN Limb - 1 ELSE 0>>

RECURSIVE add_limbs(_, _, _, _)
add_limbs(a, b, i, carry) ==
  IF i > 4 THEN <<>>
  ELSE LET s == a[i] + b[i] + carry IN
       <<s % Limb>> \o add_limbs(a, b, i + 1, s \div Limb)

\* a + b on int64_t
add64(a, b) == add_limbs(a, b, 1, 0)

\* a - b on int64_t
sub64(a, b) == add_limbs(a, [i \in 1..4 |-> Limb - 1 - b[i]], 1, 1)

\* a << n on int64_t, 0 <= n < 64; bits shifted out are lost
shl64(a, n) ==
  LET q == n \div 16
      r == n % 16
      at(i) == IF i < 1 THEN 0 ELSE a[i]
  IN [i \in 1..4 |-> ((at(i - q) * 2^r) % Limb) + ((at(i - q - 1) * 2^r) \div Limb)]

\* a >> n on int64_t, 0 <= n < 64; the sign bit is copied in
sar64(a, n) ==
  LET q == n \div 16
      r == n % 16
      at(i) == IF i > 4 THEN (IF a[4] >= 2^15 THEN Limb - 1 ELSE 0) ELSE a[i]
  IN [i \in 1..4 |-> (at(i + q) \div 2^r) + ((at(i + q + 1) % 2^r) * 2^(16 - r))]

RECURSIVE bits_or(_, _, _)
bits_or(x, y, n) ==
  IF n = 0 THEN 0
  ELSE (IF x % 2 = 1 \/ y % 2 = 1 THEN 1 ELSE 0)
       + 2 * bits_or(x \div 2, y \div 2, n - 1)

RECURSIVE bits_and(_, _, _)
bits_and(x, y, n) ==
  IF n = 0 THEN 0
  ELSE (IF x % 2 = 1 /\ y % 2 = 1 THEN 1 ELSE 0)
       + 2 * bits_and(x \div 2, y \div 2, n - 1)

\* a | b and a & b on int64_t
or64(a, b) == [i \in 1..4 |-> bits_or(a[i], b[i], 16)]
and64(a, b) == [i \in 1..4 |-> bits_and(a[i], b[i], 16)]

RECURSIVE lt_limbs(_, _, _)
lt_limbs(a, b, i) ==
  IF i = 0 THEN FALSE
  ELSE IF a[i] # b[i] THEN a[i] < b[i] ELSE lt_limbs(a, b, i - 1)

\* a < b and a <= b on int64_t (signed)
lt64(a, b) ==
  lt_limbs([a EXCEPT ![4] = (@ + 2^15) % Limb],
           [b EXCEPT ![4] = (@ + 2^15) % Limb], 4)
le64(a, b) == a = b \/ lt64(a, b)

\* the plain integer of an int64_t in 0..2^31-1 (a worker_id or sequence field)
to_int(a) == a[1] + (a[2] % 2^15) * Limb

\* 1704067200000LL, 2024-01-01 UTC in ms: 396 * 2^32 + 49745 * 2^16 + 62464
EPOCH == <<62464, 49745, 396, 0>>
WORKER_BITS == 10
SEQ_BITS == 12
MAX_WORKER == 2^WORKER_BITS - 1
MAX_SEQ == 2^SEQ_BITS - 1
WORKER_SHIFT == SEQ_BITS
TS_SHIFT == WORKER_BITS + SEQ_BITS

\* the constructor: the object it builds and whether it throws instead
SnowflakeGenerator(worker_id) ==
  [threw |-> worker_id < 0 \/ worker_id > MAX_WORKER,
   obj |-> [worker_id_ |-> worker_id, sequence_ |-> 0,
            last_ts_ |-> int64_t(-1)]]

\* the value next() returns for the timestamp ts, worker_id_ and sequence_
pack(ts, worker_id, sequence) ==
  or64(or64(shl64(sub64(ts, EPOCH), TS_SHIFT),
            int64_t(worker_id * 2^WORKER_SHIFT)),
       int64_t(sequence))

\* decode with the epoch left out of the timestamp
decode_noepoch(id) ==
  <<sar64(id, TS_SHIFT),
    to_int(and64(sar64(id, WORKER_SHIFT), int64_t(MAX_WORKER))),
    to_int(and64(id, int64_t(MAX_SEQ)))>>

\* DecodedID as <<timestamp_ms, worker_id, sequence>>
decode(id) ==
  <<add64(sar64(id, TS_SHIFT), EPOCH),
    to_int(and64(sar64(id, WORKER_SHIFT), int64_t(MAX_WORKER))),
    to_int(and64(id, int64_t(MAX_SEQ)))>>

(***************************************************************************)
(* One SnowflakeGenerator called by NThreads threads.  clock is what       *)
(* current_ms() reads, gen the members of the generator, mutex the holder  *)
(* of its mutex_, loc[t].ts the local ts of thread t.  next() runs in the  *)
(* steps lock, read, seq, spin, pack.  ref is bookkeeping: the calls       *)
(* begun, the clock ticks and backward steps so far, the id returned last  *)
(* (prev), the largest id returned (hi) and every id returned (issued, as  *)
(* intervals <<lo, hi>> of consecutive values).  last records the newest   *)
(* return: the thread (id), the value (val) and whether the call went      *)
(* through the wait loop (ok, from loc[t].spun).                           *)
(***************************************************************************)
\* worker ids the generator is constructed with
SnowWorkers == {0, MAX_WORKER}

\* 2^41: the first value of ts - EPOCH that the shift pushes into the sign bit
TS_LIMIT == shl64(int64_t(1), 63 - TS_SHIFT)

\* clock readings the model starts from
StartTimes == {EPOCH, sub64(add64(EPOCH, TS_LIMIT), int64_t(1))}

WasIssued(iv, id) == \E r \in iv : le64(r[1], id) /\ le64(id, r[2])

Issue(iv, id) ==
  IF \E r \in iv : add64(r[2], int64_t(1)) = id
  THEN LET r == CHOOSE x \in iv : add64(x[2], int64_t(1)) = id
       IN (iv \ {r}) \cup {<<r[1], id>>}
  ELSE iv \cup {<<id, id>>}

\* the generator as constructed, or after MAX_SEQ calls within the ms c
InitSnow ==
  /\ store = EmptyStore
  /\ index = BPlusTree
  /\ cache = LRUCache(CacheCapacity)
  /\ file = NoFile
  /\ last = NoOp
  /\ dirty = FALSE
  /\ failures = 0
  /\ cmutex = 0
  /\ shadow = EmptyStore
  /\ pc = [t \in Threads |-> "idle"]
  /\ loc = [t \in Threads |-> [ts |-> int64_t(0), spun |-> FALSE]]
  /\ mutex = NULL
  /\ \E w \in SnowWorkers, c \in StartTimes, used \in BOOLEAN :
       /\ clock = c
       /\ gen = IF used
                THEN [SnowflakeGenerator(w).obj EXCEPT
                        !.sequence_ = MAX_SEQ - 1, !.last_ts_ = c]
                ELSE SnowflakeGenerator(w).obj
       /\ ref = [calls |-> 0, ticks |-> 0, back |-> 0,
                 prev |-> IF used THEN Some(pack(c, w, MAX_SEQ - 1)) ELSE nullopt,
                 hi |-> IF used THEN Some(pack(c, w, MAX_SEQ - 1)) ELSE nullopt,
                 issued |-> IF used
                            THEN {<<pack(c, w, 0), pack(c, w, MAX_SEQ - 1)>>}
                            ELSE {}]

snowRest == <<store, index, cache, file, dirty, failures, cmutex, shadow>>

\* the clock moves on by one ms
clock_tick ==
  /\ ref.ticks < MaxTicks
  /\ clock' = add64(clock, int64_t(1))
  /\ ref' = [ref EXCEPT !.ticks = @ + 1]
  /\ UNCHANGED <<gen, last, pc, loc, mutex, snowRest>>

\* the wall clock is set back by one ms (never before EPOCH in the model)
clock_back ==
  /\ ref.back < MaxRegress
  /\ lt64(EPOCH, clock)
  /\ clock' = sub64(clock, int64_t(1))
  /\ ref' = [ref EXCEPT !.back = @ + 1]
  /\ UNCHANGED <<gen, last, pc, loc, mutex, snowRest>>

next_call(t) ==
  /\ pc[t] = "idle"
  /\ ref.calls < MaxCalls
  /\ pc' = [pc EXCEPT ![t] = "n_lock"]
  /\ ref' = [ref EXCEPT !.calls = @ + 1]
  /\ UNCHANGED <<gen, clock, last, loc, mutex, snowRest>>

\* std::lock_guard<std::mutex> lock(mutex_)
next_lock(t) ==
  /\ pc[t] = "n_lock"
  /\ mutex = NULL
  /\ mutex' = t
  /\ pc' = [pc EXCEPT ![t] = "n_read"]
  /\ UNCHANGED <<gen, clock, last, loc, ref, snowRest>>

\* int64_t ts = current_ms()
next_read(t) ==
  /\ pc[t] = "n_read"
  /\ Goto(t, "n_seq", [ts |-> clock, spun |-> FALSE])
  /\ UNCHANGED <<gen, clock, last, mutex, ref, snowRest>>

\* next_seq with the sequence left as it is within one ms
next_seq_keep(t) ==
  /\ pc[t] = "n_seq"
  /\ gen' = [gen EXCEPT !.sequence_ = IF loc[t].ts = gen.last_ts_ THEN @ ELSE 0]
  /\ pc' = [pc EXCEPT ![t] = "n_pack"]
  /\ UNCHANGED <<clock, last, loc, mutex, ref, snowRest>>

\* the branch on ts == last_ts_
next_seq(t) ==
  /\ pc[t] = "n_seq"
  /\ IF loc[t].ts = gen.last_ts_
     THEN LET s == bits_and(gen.sequence_ + 1, MAX_SEQ, 16) IN
          /\ gen' = [gen EXCEPT !.sequence_ = s]
          /\ pc' = [pc EXCEPT ![t] = IF s = 0 THEN "n_spin" ELSE "n_pack"]
     ELSE /\ gen' = [gen EXCEPT !.sequence_ = 0]
          /\ pc' = [pc EXCEPT ![t] = "n_pack"]
  /\ UNCHANGED <<clock, last, loc, mutex, ref, snowRest>>

\* next_spin leaving the loop after one reading of the clock
next_spin_once(t) ==
  /\ pc[t] = "n_spin"
  /\ Goto(t, "n_pack", [ts |-> clock, spun |-> TRUE])
  /\ UNCHANGED <<gen, clock, last, mutex, ref, snowRest>>

\* one round of while ((ts = current_ms()) <= last_ts_)
next_spin(t) ==
  /\ pc[t] = "n_spin"
  /\ Goto(t, IF le64(clock, gen.last_ts_) THEN "n_spin" ELSE "n_pack",
          [ts |-> clock, spun |-> TRUE])
  /\ UNCHANGED <<gen, clock, last, mutex, ref, snowRest>>

\* last_ts_ = ts, the return value, and the release of the lock
next_pack(t) ==
  /\ pc[t] = "n_pack"
  /\ LET id == pack(loc[t].ts, gen.worker_id_, gen.sequence_) IN
     /\ gen' = [gen EXCEPT !.last_ts_ = loc[t].ts]
     /\ last' = [NoOp EXCEPT !.op = "next", !.id = t, !.val = Some(id),
                             !.ok = loc[t].spun]
     /\ ref' = [ref EXCEPT !.prev = Some(id),
                           !.hi = IF @ = nullopt \/ lt64(@[1], id)
                                  THEN Some(id) ELSE @,
                           !.issued = Issue(@, id)]
  /\ mutex' = IF mutex = t THEN NULL ELSE mutex
  /\ Goto(t, "idle", [ts |-> int64_t(0), spun |-> FALSE])
  /\ UNCHANGED <<clock, snowRest>>

next(t) ==
  \/ next_lock(t)
  \/ next_read(t)
  \/ next_seq(t)
  \/ next_spin(t)
  \/ next_pack(t)

NextSnow ==
  \/ clock_tick
  \/ clock_back
  \/ \E t \in Threads : next_call(t)
  \/ \E t \in Threads : next(t)

SpecSnow == InitSnow /\ [][NextSnow]_vars

\* a thread in the wait loop is running: it keeps reading the clock
SpecSnowFair == SpecSnow /\ \A t \in Threads : WF_vars(next_spin(t))

(***************************************************************************)
(* decode against the packing of next(), as pure functions.  The initial   *)
(* state draws two triples of fields (ref.a, ref.b) from sets that hold    *)
(* both ends of each range; decode_packed packs ref.a and decodes the id,  *)
(* pack_two packs both triples as two generators would.  last records the  *)
(* fields (list), the id (val) and what was computed from it (ids).        *)
(***************************************************************************)
\* timestamps: the first ones from EPOCH on, and those around EPOCH + 2^41
DecodeTimes ==
  {add64(EPOCH, int64_t(d)) : d \in 0..MaxOffset}
    \cup {add64(add64(EPOCH, TS_LIMIT), int64_t(d)) : d \in (0 - MaxOffset)..0}
DecodeWorkers == {0, 1, MAX_WORKER}
DecodeSeqs == {0, 1, MAX_SEQ}
DecodeInputs == DecodeTimes \X DecodeWorkers \X DecodeSeqs

InitDecode ==
  /\ store = EmptyStore
  /\ index = BPlusTree
  /\ cache = LRUCache(CacheCapacity)
  /\ file = NoFile
  /\ last = NoOp
  /\ dirty = FALSE
  /\ failures = 0
  /\ pc = <<>>
  /\ loc = <<>>
  /\ mutex = NULL
  /\ cmutex = 0
  /\ shadow = EmptyStore
  /\ gen = <<>>
  /\ clock = <<>>
  /\ \E a \in DecodeInputs, b \in DecodeInputs : ref = [a |-> a, b |-> b]

decode_packed ==
  /\ last.op = "none"
  /\ LET id == pack(ref.a[1], ref.a[2], ref.a[3]) IN
     last' = [NoOp EXCEPT !.op = "decode", !.val = Some(id),
                          !.list = ref.a, !.ids = decode(id)]
  /\ UNCHANGED <<repoVars, thrVars, ref, snowVars>>

pack_two ==
  /\ last.op = "none"
  /\ ref.a[2] # ref.b[2]
  /\ last' = [NoOp EXCEPT !.op = "pack_two",
                          !.val = Some(pack(ref.a[1], ref.a[2], ref.a[3])),
                          !.ids = <<pack(ref.b[1], ref.b[2], ref.b[3])>>]
  /\ UNCHANGED <<repoVars, thrVars, ref, snowVars>>

NextDecode ==
  \/ decode_packed
  \/ pack_two

SpecDecode == InitDecode /\ [][NextDecode]_vars

(***************************************************************************)
(* Construction.  Each action constructs one object from an argument and   *)
(* records in last the class (op), the argument (id) and whether the       *)
(* constructor threw.  Order is a template argument: BPlusTree<K, V, Order>*)
(* compiles for every Order >= 0 and its constructor takes no argument.    *)
(***************************************************************************)
\* LRUCache(capacity) throws instead of building the object
LRUCache_throws(capacity) == capacity = 0

\* BPlusTree<Key, Value, order>() throws instead of building the object
BPlusTree_throws(order) == FALSE

InitCtor ==
  /\ store = EmptyStore
  /\ index = BPlusTree
  /\ cache = LRUCache(CacheCapacity)
  /\ file = NoFile
  /\ last = NoOp
  /\ dirty = FALSE
  /\ failures = 0
  /\ pc = <<>>
  /\ loc = <<>>
  /\ mutex = NULL
  /\ cmutex = 0
  /\ shadow = EmptyStore
  /\ gen = <<>>
  /\ clock = <<>>
  /\ ref = <<>>

new_SnowflakeGenerator(worker_id) ==
  /\ last' = [NoOp EXCEPT !.op = "SnowflakeGenerator", !.id = worker_id,
                          !.threw = SnowflakeGenerator(worker_id).threw]
  /\ UNCHANGED <<repoVars, thrVars, ref, snowVars>>

new_LRUCache(capacity) ==
  /\ last' = [NoOp EXCEPT !.op = "LRUCache", !.id = capacity,
                          !.threw = LRUCache_throws(capacity)]
  /\ UNCHANGED <<repoVars, thrVars, ref, snowVars>>

new_BPlusTree(order) ==
  /\ last' = [NoOp EXCEPT !.op = "BPlusTree", !.id = order,
                          !.threw = BPlusTree_throws(order)]
  /\ UNCHANGED <<repoVars, thrVars, ref, snowVars>>

NextCtor ==
  \/ \E w \in (0 - MaxCtorArg)..(MAX_WORKER + MaxCtorArg) :
       new_SnowflakeGenerator(w)
  \/ \E c \in 0..MaxCtorArg : new_LRUCache(c)
  \/ \E o \in 0..MaxCtorArg : new_BPlusTree(o)

SpecCtor == InitCtor /\ [][NextCtor]_vars

(***************************************************************************)
(* Properties.                                                             *)
(***************************************************************************)
\* what find_by_id has to answer for id over the map st
Lookup(st, id) == IF id \in DOMAIN st THEN Some(st[id]) ELSE nullopt

\* the keys for_each visits, in order
IndexKeys(t) == [i \in DOMAIN BPlusTree_for_each(t) |-> BPlusTree_for_each(t)[i][1]]

Count(seq, x) == Cardinality({i \in DOMAIN seq : seq[i] = x})

\* the elements of a set of integers in ascending order
RECURSIVE Ascending(_)
Ascending(S) ==
  IF S = {} THEN <<>>
  ELSE LET m == CHOOSE x \in S : \A y \in S : x <= y IN <<m>> \o Ascending(S \ {m})

\* the cache holds exactly the value v for key
CacheHolds(c, key, v) ==
  /\ key \in c.map
  /\ \E i \in DOMAIN c.list : c.list[i].key = key /\ c.list[i].value = v

\* every cache entry is an entry of the map, with an equal value
CacheMirrorsStore ==
  \A i \in DOMAIN cache.list :
    /\ cache.list[i].key \in DOMAIN store
    /\ store[cache.list[i].key] = cache.list[i].value

\* the file holds a complete image of the map st
FileImageOf(fl, st) == fl.exists /\ load_all(fl).store = st

\* C1: a repository constructed over the file left by successful
\* save/update/remove calls has the same map as the one that wrote it, so
\* find_by_id on it answers from that map; without a file it starts empty.
C1_Durability ==
  [][/\ (last'.op = "construct" /\ ~dirty) => store' = store
     /\ (last'.op = "construct" /\ ~file.exists) =>
          (store' = EmptyStore /\ index'.size = 0)
     /\ (last.op = "construct" /\ last'.op = "find_by_id") =>
          last'.val = Lookup(store, last'.id)]_vars

C1_Witness ==
  /\ last.op = "construct"
  /\ DOMAIN store = Ids
  /\ \E id \in Ids : store[id].name # <<>>
  /\ file.exists

\* C3: find_by_id(e.id) right after save(e) has returned answers e from the
\* cache: one more hit, no more misses, mutex_ not taken.
C3_HitAfterSave ==
  [][(last.op = "save" /\ ~last.threw /\ last'.op = "find_by_id"
        /\ last'.id = last.id) =>
       /\ last'.val = Some(last.e)
       /\ cache'.hits = cache.hits + 1
       /\ cache'.misses = cache.misses
       /\ ~last'.locked]_vars

C3_Witness ==
  /\ last.op = "find_by_id"
  /\ ~last.locked
  /\ cache.hits = 1
  /\ last.val # nullopt
  /\ last.val[1].name # <<>>
  /\ Cardinality(DOMAIN store) = MaxId

\* C4: the index holds exactly one entry per id of the map and none for
\* any other id.
C4_IndexMirrorsMap ==
  \A id \in Ids :
    Count(IndexKeys(index), id) = IF id \in DOMAIN store THEN 1 ELSE 0

\* C5: find_range(lo, hi) returns the stored customers with lo <= id <= hi,
\* each once, in ascending id order.
C5_FindRangeExact ==
  last.op = "find_range" =>
    last.list = [i \in DOMAIN Ascending({k \in DOMAIN store : last.lo <= k /\ k <= last.hi})
                   |-> store[Ascending({k \in DOMAIN store : last.lo <= k /\ k <= last.hi})[i]]]

\* C6: update and remove return true exactly when the id is stored; when it
\* is not they change nothing; when it is, update replaces the stored and
\* the cached record, remove erases the id from map, index and cache, and
\* both rewrite the file before they return.
C6_UpdateRemove ==
  [][/\ last'.op = "update" =>
          IF last'.id \notin DOMAIN store
          THEN ~last'.ok /\ ~last'.threw /\ UNCHANGED <<store, index, cache, file>>
          ELSE /\ store' = store_set(store, last'.e)
               /\ CacheHolds(cache', last'.id, last'.e)
               /\ ~last'.threw => (last'.ok /\ FileImageOf(file', store'))
     /\ last'.op = "remove" =>
          IF last'.id \notin DOMAIN store
          THEN ~last'.ok /\ ~last'.threw /\ UNCHANGED <<store, index, cache, file>>
          ELSE /\ store' = store_erase(store, last'.id)
               /\ Count(IndexKeys(index'), last'.id) = 0
               /\ last'.id \notin cache'.map
               /\ ~last'.threw => (last'.ok /\ FileImageOf(file', store'))]_vars

\* a save, update or remove holds mutex_
MutatorActive == \E t \in DOMAIN pc : mutex = t /\ loc[t].op \in Mutators

\* t is between taking mutex_ and the end of its flush in a mutating operation
InCritical(t) ==
  /\ loc[t].op \in Mutators
  /\ pc[t] \in {"store", "index", "cache_lock", "cache_op", "flush_open", "flush_write"}

\* C2: while no mutating operation is under way every cache entry is an
\* entry of the map with an equal value, and a find_by_id that returns then
\* returns the map's value for the id, absent only when the id is not stored.
C2_CacheConsistent ==
  /\ [](~MutatorActive => CacheMirrorsStore)
  /\ [][\A t \in DOMAIN pc :
          (pc[t] # "done" /\ pc'[t] = "done" /\ loc'[t].op = "find_by_id"
             /\ ~MutatorActive) =>
            loc'[t].val = Lookup(store, loc'[t].id)]_vars

\* a find_by_id that missed the cache has returned the stored record and the
\* cache holds it
C2_Witness ==
  /\ ~MutatorActive
  /\ \E t \in DOMAIN pc :
       /\ pc[t] = "done"
       /\ loc[t].op = "find_by_id"
       /\ loc[t].locked
       /\ loc[t].val # nullopt
       /\ CacheHolds(cache, loc[t].id, store[loc[t].id])
       /\ store[loc[t].id].name # <<>>

\* C7: save, update and remove exclude each other from taking mutex_ to the
\* end of the flush; the map is the one the operations produce when applied
\* one at a time in lock order, and the file written by a flush is that map.
C7_MutatorsSerialized ==
  /\ [](\A t, u \in DOMAIN pc : (InCritical(t) /\ InCritical(u)) => t = u)
  /\ [](~MutatorActive => store = shadow)
  /\ [][\A t \in DOMAIN pc :
          (pc[t] = "flush_write" /\ pc'[t] = "done") =>
            (FileImageOf(file', shadow') /\ store' = shadow')]_vars

\* one mutating operation is at its flush while another waits for mutex_
C7_Witness ==
  \E t, u \in DOMAIN pc :
    /\ t # u
    /\ pc[t] = "flush_write"
    /\ pc[u] = "lock"
    /\ loc[u].op \in Mutators
    /\ store # EmptyStore

\* C8: no thread asks for or takes the repository's mutex_ while it holds
\* the cache's mutex, the cache's mutex is held only inside a cache
\* operation, and whenever an operation is under way some thread can step.
C8_LockOrder ==
  /\ [](\A t \in DOMAIN pc :
          /\ pc[t] = "lock" => cmutex # t
          /\ cmutex = t => pc[t] \in {"cache_op", "get"}
          /\ pc[t] # "idle" => \E u \in DOMAIN pc : ENABLED step(u))
  /\ [][\A t \in DOMAIN pc : (mutex' = t /\ mutex # t) => cmutex # t]_vars

\* a thread holds mutex_ and then the cache's mutex while another waits
\* for the cache
C8_Witness ==
  \E t, u \in DOMAIN pc :
    /\ mutex = t
    /\ cmutex = t
    /\ pc[u] = "get_lock"

\* C9: a thread inside an operation of the index (index_.range of
\* find_range, index_.insert/update/remove) holds the lock that protects
\* the index, and a range scan never runs beside an index modification.
C9_IndexOpsLocked ==
  /\ \A t \in DOMAIN pc : pc[t] \in {"index", "range"} => mutex = t
  /\ \A t, u \in DOMAIN pc : ~(pc[t] = "range" /\ pc[u] = "index")

\* the mutation of the operation l is in the map, the index and the cache
MutationKept(l) ==
  IF l.op = "remove"
  THEN l.id \notin DOMAIN store /\ l.id \notin cache.map
  ELSE /\ l.id \in DOMAIN store
       /\ store[l.id] = l.e
       /\ CacheHolds(cache, l.id, l.e)
       /\ Count(IndexKeys(index), l.id) >= 1

\* C10: when flush cannot open the file the operation ends by throwing to
\* its caller, map, index and cache keep the mutation, mutex_ is released
\* and the file is as it was.
C10_FlushFailure ==
  [][\A t \in DOMAIN pc :
       (pc[t] = "flush_open" /\ pc'[t] = "done") =>
         /\ loc'[t].threw
         /\ mutex = t /\ mutex' = 0
         /\ UNCHANGED <<file, store, index, cache>>
         /\ MutationKept(loc[t])']_vars

\* an operation has thrown, the file still holds an earlier, non-empty
\* snapshot that differs from the map
C10_Witness ==
  /\ \E t \in DOMAIN pc : pc[t] = "done" /\ loc[t].threw /\ loc[t].op = "update"
  /\ dirty
  /\ file.exists
  /\ load_all(file).store # EmptyStore
  /\ load_all(file).store # store
  /\ mutex = 0

\* C11: at every instant the file, once it exists, holds a complete
\* [record_count][records] image of a map: the count is there and the bytes
\* are exactly what flush writes for the map a constructor would load from
\* them, also between the truncation and the writes of a flush.
C11_SnapshotConsistent ==
  file.exists =>
    /\ Len(file.bytes) >= 1
    /\ \E order \in Orders(DOMAIN load_all(file).store) :
         file.bytes = flush_bytes(load_all(file).store, order)

\* the first components of a sequence of (key, value) pairs
KeysOf(pairs) == [i \in DOMAIN pairs |-> pairs[i][1]]

\* the keys lo..hi in ascending order, each as often as cnt says
RECURSIVE ExpectedKeys(_, _, _)
ExpectedKeys(cnt, lo, hi) ==
  IF lo > hi THEN <<>>
  ELSE [i \in 1..cnt[lo] |-> lo] \o ExpectedKeys(cnt, lo + 1, hi)

\* what search has to answer for k by the caller's bookkeeping r
ExpectedValue(r, k) == IF r.cnt[k] > 0 THEN Some(r.val[k]) ELSE nullopt

\* the tree has a root above internal nodes: an internal node has split
InternalSplitDone ==
  /\ ~index.nodes[index.root].is_leaf
  /\ ~index.nodes[index.nodes[index.root].children[1]].is_leaf

\* C12: after inserts only, for_each visits the keys in strictly ascending
\* order and visits exactly the set of keys inserted.
C12_ForEachOrdered ==
  (last.op = "for_each" /\ ref.mods = 0) =>
    /\ \A i \in 1..(Len(last.ids) - 1) : last.ids[i][1] < last.ids[i + 1][1]
    /\ {last.ids[i][1] : i \in DOMAIN last.ids} = {k \in TreeKeys : ref.cnt[k] > 0}

\* C13: with no key inserted while present, search(k) answers the value last
\* inserted or set by update when k is inserted and not removed, and absent
\* otherwise; update(k, v) returns true exactly when k is present, leaves
\* size() and every other entry as they were and makes search(k) answer v.
C13_SearchUpdate ==
  /\ [](~ref.dup =>
          \A k \in TreeKeys : BPlusTree_search(index, k) = ExpectedValue(ref, k))
  /\ [][~ref'.dup =>
          /\ last'.op = "search" => last'.val = ExpectedValue(ref, last'.id)
          /\ last'.op = "update" =>
               /\ last'.ok = (ref.cnt[last'.id] > 0)
               /\ index'.size = index.size
               /\ KeysOf(BPlusTree_for_each(index')) = KeysOf(BPlusTree_for_each(index))
               /\ \A k \in TreeKeys \ {last'.id} :
                    BPlusTree_search(index', k) = BPlusTree_search(index, k)
               /\ last'.ok => BPlusTree_search(index', last'.id) = last'.val
               /\ ~last'.ok => index' = index]_vars

\* after an internal split, a remove and an update, search answers the
\* updated value
C13_Witness ==
  /\ last.op = "search"
  /\ ~ref.dup
  /\ InternalSplitDone
  /\ index.size = MaxTreeSize - 1
  /\ last.val = Some(NewValue(last.id))

\* C14: range(lo, hi) with lo <= hi returns the entries with
\* lo <= key <= hi, each once, in ascending key order, with their values:
\* so for every lo <= hi on the tree each insert, update or remove leaves,
\* and so for the calls made.
C14_RangeExact ==
  /\ last.op \in {"none", "insert", "update", "remove"} =>
       \A lo \in TreeKeys, hi \in TreeKeys :
         lo <= hi =>
           KeysOf(BPlusTree_range(index, lo, hi)) = ExpectedKeys(ref.cnt, lo, hi)
  /\ last.op = "range" =>
       /\ KeysOf(last.ids) = ExpectedKeys(ref.cnt, last.lo, last.hi)
       /\ ~ref.dup => \A i \in DOMAIN last.ids :
                        last.ids[i][2] = ref.val[last.ids[i][1]]

\* range was called with lo a separator key of the root, started in a leaf
\* emptied by remove and returned entries of the next leaf
C14_Witness ==
  /\ last.op = "range"
  /\ last.ids # <<>>
  /\ ~index.nodes[index.root].is_leaf
  /\ \E i \in DOMAIN index.nodes[index.root].keys :
       index.nodes[index.root].keys[i] = last.lo
  /\ Len(index.nodes[descend_lower(index.nodes, index.root, last.lo)].keys) = 0

\* C15: remove(k) returns true exactly when an entry with key k is present;
\* a successful remove of a key inserted once makes search(k) absent, leaves
\* every other entry found by search and lowers size() by 1; a failed remove
\* changes nothing; size() is the inserts minus the successful removes and
\* the number of entries for_each visits.
C15_Remove ==
  /\ [](/\ index.size = Len(BPlusTree_for_each(index))
        /\ KeysOf(BPlusTree_for_each(index)) = ExpectedKeys(ref.cnt, 1, MaxKey))
  /\ [][last'.op = "remove" =>
          /\ last'.ok = (ref.cnt[last'.id] > 0)
          /\ (last'.ok /\ ref.cnt[last'.id] = 1) =>
               /\ BPlusTree_search(index', last'.id) = nullopt
               /\ \A k \in TreeKeys \ {last'.id} :
                    BPlusTree_search(index', k) = BPlusTree_search(index, k)
               /\ index'.size = index.size - 1
          /\ ~last'.ok => index' = index]_vars

\* put is about to insert a key the full cache does not hold
PutEvicts(c, key) == key \notin c.map /\ Len(c.list) = c.capacity

\* the cached key whose last promotion is the oldest
LeastRecent(c, order) == SelectSeq(order, LAMBDA k : k \in c.map)[1]

\* the list without the entry of key
Without(list, key) == SelectSeq(list, LAMBDA e : e.key # key)

Reverse(seq) == [i \in DOMAIN seq |-> seq[Len(seq) + 1 - i]]

\* C16: the cache never holds more entries than the capacity given to the
\* constructor, list_ and map_ hold the same keys, each once, and a put of a
\* new key into a full cache removes exactly one entry and adds the new one.
C16_CapacityBound ==
  /\ [](/\ cache.capacity = LruCapacity
        /\ Len(cache.list) <= cache.capacity
        /\ {cache.list[i].key : i \in DOMAIN cache.list} = cache.map
        /\ Len(cache.list) = Cardinality(cache.map))
  /\ [][(last'.op = "put" /\ PutEvicts(cache, last'.id)) =>
          /\ Cardinality(cache.map \ cache'.map) = 1
          /\ cache'.map \ cache.map = {last'.id}
          /\ Len(cache'.list) = cache.capacity]_vars

\* every key has been put, the cache is full and a put has just evicted
C16_Witness ==
  /\ last.op = "put"
  /\ Len(cache.list) = LruCapacity
  /\ Len(ref.order) = MaxLruKey
  /\ last.id \in cache.map
  /\ \E k \in LruKeys : k \notin cache.map

\* C17: a put of a new key into a full cache evicts the entry whose last
\* promotion is the oldest; a get that hits and a put of a cached key move
\* the entry to the front (put with the new value, the size unchanged);
\* contains and a get that misses leave the order as it is.
C17_EvictsLeastRecent ==
  /\ [](Reverse([i \in DOMAIN cache.list |-> cache.list[i].key])
          = SelectSeq(ref.order, LAMBDA k : k \in cache.map))
  /\ [][/\ (last'.op = "put" /\ PutEvicts(cache, last'.id)) =>
             /\ cache'.map = (cache.map \ {LeastRecent(cache, ref.order)}) \cup {last'.id}
             /\ cache'.list = <<[key |-> last'.id, value |-> last'.val[1]]>>
                                \o Without(cache.list, LeastRecent(cache, ref.order))
        /\ (last'.op = "put" /\ last'.id \in cache.map) =>
             /\ cache'.list = <<[key |-> last'.id, value |-> last'.val[1]]>>
                                \o Without(cache.list, last'.id)
             /\ Len(cache'.list) = Len(cache.list)
        /\ (last'.op = "get" /\ last'.id \in cache.map) =>
             /\ cache'.list[1].key = last'.id
             /\ last'.val = Some(cache'.list[1].value)
             /\ Without(cache'.list, last'.id) = Without(cache.list, last'.id)
             /\ Len(cache'.list) = Len(cache.list)
        /\ (last'.op = "contains" \/ (last'.op = "get" /\ last'.id \notin cache.map)) =>
             cache'.list = cache.list]_vars

\* a get has promoted key 1, and the put of key 3 into the full cache has
\* then evicted key 2
C17_Witness ==
  /\ last.op = "put"
  /\ last.id = 3
  /\ cache.hits = 1
  /\ Len(cache.list) = LruCapacity
  /\ ref.order = <<2, 1, 3>>
  /\ cache.map = {1, 3}

\* C18: put calls the eviction callback once, with the key and the value of
\* the least recently used entry and while that entry is still cached, when
\* it evicts for capacity, and not at all otherwise; no other operation
\* calls it; evict(key) returns true exactly when the key is cached and
\* leaves the cache without the key and otherwise as it was.
C18_EvictCallback ==
  [][/\ (last'.op = "put" /\ PutEvicts(cache, last'.id) /\ cache.evict_cb) =>
          LET lru == LeastRecent(cache, ref.order) IN
          /\ Len(last'.cb) = 1
          /\ last'.cb[1].key = lru
          /\ \E i \in DOMAIN cache.list :
               cache.list[i].key = lru /\ cache.list[i].value = last'.cb[1].value
          /\ last'.cb[1].cached
          /\ lru \notin cache'.map
     /\ ~(last'.op = "put" /\ PutEvicts(cache, last'.id) /\ cache.evict_cb) =>
          last'.cb = <<>>
     /\ last'.op = "evict" =>
          /\ last'.ok = (last'.id \in cache.map)
          /\ last'.id \notin cache'.map
          /\ cache'.map = cache.map \ {last'.id}
          /\ cache'.list = Without(cache.list, last'.id)]_vars

\* the callback has been called for an entry whose value a put had replaced
C18_Witness ==
  /\ last.op = "put"
  /\ Len(last.cb) = 1
  /\ last.cb[1].value # last.cb[1].key
  /\ last.cb[1].key \notin cache.map

\* C19: a get adds one to hits when the key is cached and one to misses
\* when it is not, and to nothing else; no other operation changes a
\* counter; hits + misses is the number of gets; hit_rate() is
\* hits / (hits + misses), 0 before the first get, and within [0, 1].
C19_Counters ==
  /\ [](cache.hits + cache.misses = ref.gets)
  /\ [][/\ last'.op = "get" =>
             IF last'.id \in cache.map
             THEN cache'.hits = cache.hits + 1 /\ cache'.misses = cache.misses
             ELSE cache'.hits = cache.hits /\ cache'.misses = cache.misses + 1
        /\ last'.op # "get" =>
             cache'.hits = cache.hits /\ cache'.misses = cache.misses
        /\ last'.op = "hits" => last'.n = cache.hits
        /\ last'.op = "misses" => last'.n = cache.misses
        /\ last'.op = "hit_rate" =>
             /\ last'.rate[2] > 0
             /\ 0 <= last'.rate[1] /\ last'.rate[1] <= last'.rate[2]
             /\ ref.gets = 0 => last'.rate[1] = 0
             /\ last'.rate[1] * (cache.hits + cache.misses) = cache.hits * last'.rate[2]]_vars

\* after one hit and one miss hit_rate() is 1/2
C19_Witness ==
  /\ last.op = "hit_rate"
  /\ cache.hits = 1
  /\ cache.misses = 1
  /\ 2 * last.rate[1] = last.rate[2]

\* C20: a thread inside the body of any public operation of the cache
\* holds the cache's mutex, and no operation reads or writes the members
\* while the body of another thread's operation is under way.
C20_AllUnderMutex ==
  /\ \A t \in DOMAIN pc : pc[t] \in {"c_body", "c_unlocked"} => cmutex = t
  /\ \A t, u \in DOMAIN pc : ~(pc[t] = "c_unlocked" /\ pc[u] = "c_body")

\* thread t returns from next() in this step
Returns(t) == pc[t] = "n_pack" /\ pc'[t] = "idle"

\* timestamps from EPOCH up to the last one whose shifted offset is positive
InRange(ts) == le64(EPOCH, ts) /\ lt64(ts, add64(EPOCH, TS_LIMIT))

seq_of(id) == to_int(and64(id, int64_t(MAX_SEQ)))

\* C21 (as stated): while the clock has never gone backward, each id
\* returned is larger than the id returned before it, and every id issued
\* at or after the epoch is positive.
C21_Original ==
  [][\A t \in DOMAIN pc :
       (Returns(t) /\ ref.back = 0) =>
         /\ ref.prev # nullopt => lt64(ref.prev[1], last'.val[1])
         /\ le64(EPOCH, loc[t].ts) => lt64(int64_t(0), last'.val[1])]_vars

\* C21 (amended): while the clock has never gone backward and reads from
\* EPOCH up to but not including EPOCH + 2^41, each id returned is larger
\* than the id returned before it and is not negative; it is positive
\* unless it is the id 0 of worker 0 with sequence 0 in the epoch ms.
C21_Monotonic ==
  [][\A t \in DOMAIN pc :
       (Returns(t) /\ ref.back = 0 /\ InRange(loc[t].ts)) =>
         /\ ref.prev # nullopt => lt64(ref.prev[1], last'.val[1])
         /\ le64(int64_t(0), last'.val[1])
         /\ (loc[t].ts # EPOCH \/ gen.worker_id_ # 0 \/ gen.sequence_ # 0) =>
              lt64(int64_t(0), last'.val[1])]_vars

\* with the clock never set back, MAX_SEQ + 1 ids of one ms have been
\* returned, then sequence 0 and sequence 1 of a later ms
C21_Witness ==
  /\ last.op = "next"
  /\ ref.back = 0
  /\ seq_of(last.val[1]) = 1
  /\ Cardinality(ref.issued) = 2
  /\ \E r \in ref.issued : seq_of(r[1]) = 0 /\ seq_of(r[2]) = MAX_SEQ
  /\ InRange(gen.last_ts_)

\* thread t is between taking and releasing the generator's mutex_
InNext(t) == pc[t] \in {"n_read", "n_seq", "n_spin", "n_pack"}

\* C22: the steps of next() that read and write last_ts_ and sequence_ are
\* taken by one thread at a time, the one that holds mutex_, and no call
\* returns an id that an earlier call has returned.
C22_Unique ==
  /\ [](\A t \in DOMAIN pc : InNext(t) => mutex = t)
  /\ [][\A t \in DOMAIN pc :
          Returns(t) => ~WasIssued(ref.issued, last'.val[1])]_vars

\* C23 (as stated): for every timestamp from EPOCH on, every worker id in
\* [0, 1023] and every sequence in [0, 4095], decode gives back exactly the
\* fields that were packed; ids packed with different worker ids differ.
C23_Original ==
  /\ last.op = "decode" => last.ids = last.list
  /\ last.op = "pack_two" => last.val[1] # last.ids[1]

\* C23 (amended): decode gives back the packed worker id and sequence for
\* every timestamp from EPOCH on, and the timestamp as well while it is
\* below EPOCH + 2^41; ids packed with different worker ids differ.
C23_DecodeInverse ==
  /\ last.op = "decode" =>
       /\ last.ids[2] = last.list[2]
       /\ last.ids[3] = last.list[3]
       /\ InRange(last.list[1]) => last.ids = last.list
  /\ last.op = "pack_two" => last.val[1] # last.ids[1]

\* the largest timestamp below EPOCH + 2^41 with the largest worker id and
\* sequence has been packed and decoded
C23_Witness ==
  /\ last.op = "decode"
  /\ last.list = <<sub64(add64(EPOCH, TS_LIMIT), int64_t(1)), MAX_WORKER, MAX_SEQ>>
  /\ last.val[1] = <<65535, 65535, 65535, 32767>>
  /\ last.ids = last.list

\* C24: a constructor throws exactly when its parameter is invalid: a
\* worker id outside [0, 1023], a cache capacity of 0, a B+Tree Order
\* below 3.
C24_RejectsInvalid ==
  /\ last.op = "SnowflakeGenerator" =>
       last.threw = (last.id < 0 \/ last.id > 1023)
  /\ last.op = "LRUCache" => last.threw = (last.id = 0)
  /\ last.op = "BPlusTree" => last.threw = (last.id < 3)

\* the timestamp field of an id (the bits above the worker id)
ms_of(id) == sar64(id, TS_SHIFT)

\* C25: an id returned in the ms of the id returned before it has the next
\* sequence number, the first id of another ms has sequence 0; a call
\* whose sequence wrapped holds the mutex while it waits, no other thread
\* is inside next() meanwhile, it leaves the wait only on a clock reading
\* later than last_ts_ and returns that reading with sequence 0; and it
\* does not wait forever while the clock reads a later ms.
C25_SequenceAndWrap ==
  /\ [][\A t \in DOMAIN pc :
          /\ Returns(t) =>
               /\ seq_of(last'.val[1]) =
                    IF ref.prev # nullopt /\ ms_of(ref.prev[1]) = ms_of(last'.val[1])
                    THEN seq_of(ref.prev[1]) + 1 ELSE 0
               /\ shl64(ms_of(last'.val[1]), TS_SHIFT)
                    = shl64(sub64(loc[t].ts, EPOCH), TS_SHIFT)
               /\ loc[t].spun =>
                    /\ lt64(gen.last_ts_, loc[t].ts)
                    /\ seq_of(last'.val[1]) = 0
          /\ (pc[t] = "n_spin" /\ pc'[t] # "n_spin") =>
               /\ pc'[t] = "n_pack"
               /\ lt64(gen.last_ts_, clock)
               /\ loc'[t].ts = clock
               /\ gen.sequence_ = 0
          /\ (pc[t] = "n_seq" /\ pc'[t] = "n_spin") =>
               /\ loc[t].ts = gen.last_ts_
               /\ gen.sequence_ = MAX_SEQ]_vars
  /\ [](\A t \in DOMAIN pc :
          pc[t] = "n_spin" =>
            /\ mutex = t
            /\ \A u \in DOMAIN pc \ {t} : pc[u] \in {"idle", "n_lock"})
  /\ \A t \in Threads :
       []<>(pc[t] # "n_spin" \/ le64(clock, gen.last_ts_))

\* a call has waited through the wrap of the sequence and returned
\* sequence 0 of the next ms while the other thread's call was waiting for
\* the mutex
C25_Witness ==
  /\ last.op = "next"
  /\ last.ok
  /\ seq_of(last.val[1]) = 0
  /\ \E r \in ref.issued :
       /\ seq_of(r[2]) = MAX_SEQ
       /\ add64(ms_of(r[2]), int64_t(1)) = ms_of(last.val[1])
  /\ \E u \in DOMAIN pc : pc[u] = "n_lock"

\* C26: once the clock has read lower than last_ts_, next() still never
\* returns an id that is less than or equal to an id it returned earlier.
C26_NoRegression ==
  [][\A t \in DOMAIN pc :
       (Returns(t) /\ ref.hi # nullopt /\ lt64(loc[t].ts, gen.last_ts_)) =>
         lt64(ref.hi[1], last'.val[1])]_vars

\* the nodes reachable from the nodes in todo
RECURSIVE Reach(_, _)
Reach(nodes, todo) ==
  IF todo = <<>> THEN {}
  ELSE IF Head(todo) = NULL THEN Reach(nodes, Tail(todo))
  ELSE {Head(todo)} \cup Reach(nodes, nodes[Head(todo)].children \o Tail(todo))

\* the depths of the leaves below the <<node, depth>> pairs in todo
RECURSIVE LeafDepths(_, _)
LeafDepths(nodes, todo) ==
  IF todo = <<>> THEN {}
  ELSE LET node == Head(todo)[1]
           d == Head(todo)[2]
       IN IF node = NULL THEN LeafDepths(nodes, Tail(todo))
          ELSE IF nodes[node].is_leaf
               THEN {d} \cup LeafDepths(nodes, Tail(todo))
               ELSE LeafDepths(nodes,
                      [i \in DOMAIN nodes[node].children |->
                         <<nodes[node].children[i], d + 1>>] \o Tail(todo))

\* the leaves below the nodes in todo, left to right
RECURSIVE LeavesOf(_, _)
LeavesOf(nodes, todo) ==
  IF todo = <<>> THEN <<>>
  ELSE IF Head(todo) = NULL THEN LeavesOf(nodes, Tail(todo))
  ELSE IF nodes[Head(todo)].is_leaf
       THEN <<Head(todo)>> \o LeavesOf(nodes, Tail(todo))
       ELSE LeavesOf(nodes, nodes[Head(todo)].children \o Tail(todo))

\* the leaves the next_leaf links visit from leaf on, at most fuel of them
RECURSIVE ChainOf(_, _, _)
ChainOf(nodes, leaf, fuel) ==
  IF leaf = NULL \/ fuel = 0 THEN <<>>
  ELSE <<leaf>> \o ChainOf(nodes, nodes[leaf].next_leaf, fuel - 1)

C28_MinKeys ==
  \A n \in Reach(index.nodes, <<index.root>>) \ {index.root} :
    Len(index.nodes[n].keys) >= (Order - 1 + 1) \div 2

\* position of the first pair with key k in pairs, 0 if there is none
FirstWithKey(pairs, k) ==
  IF \E i \in DOMAIN pairs : pairs[i][1] = k
  THEN CHOOSE i \in DOMAIN pairs :
         pairs[i][1] = k /\ \A j \in 1..(i - 1) : pairs[j][1] # k
  ELSE 0

\* C29: an insert of (k, v) while entries with key k are present adds
\* exactly one entry, leaves every other entry as it was, and in for_each
\* order the new entry stands before every entry with key k that was
\* there (v is a value no entry had).
C29_DuplicateFirst ==
  [][(last'.op = "insert" /\ ref.cnt[last'.id] > 0) =>
       LET before == BPlusTree_for_each(index)
           k == last'.id
           v == last'.val[1]
       IN /\ index'.size = index.size + 1
          /\ (\A i \in DOMAIN before : before[i] # <<k, v>>) =>
               BPlusTree_for_each(index')
                 = InsertAt(before, FirstWithKey(before, k) - 1, <<k, v>>)]_vars

\* the number of nodes on the path from node down to its leftmost leaf
RECURSIVE Height(_, _)
Height(nodes, node) ==
  IF nodes[node].is_leaf THEN 1 ELSE 1 + Height(nodes, nodes[node].children[1])

\* C30: no insert or remove lowers the height; a remove keeps the root,
\* allocates and frees no node, leaves every internal node as it was and
\* changes at most one leaf; an internal root always has a key, so the
\* branch that replaces an empty internal root is never taken; and a tree
\* emptied by removes has size 0 and visits no entry while its internal
\* nodes stay in place.
C30_HeightKept ==
  /\ [][/\ Height(index'.nodes, index'.root) >= Height(index.nodes, index.root)
        /\ last'.op = "remove" =>
             /\ index'.root = index.root
             /\ Len(index'.nodes) = Len(index.nodes)
             /\ \A n \in DOMAIN index.nodes :
                  ~index.nodes[n].is_leaf => index'.nodes[n] = index.nodes[n]
             /\ Cardinality({n \in DOMAIN index.nodes :
                               index'.nodes[n] # index.nodes[n]})
                  = (IF last'.ok THEN 1 ELSE 0)
             /\ index'.size = index.size - (IF last'.ok THEN 1 ELSE 0)]_vars
  /\ [](/\ ~index.nodes[index.root].is_leaf =>
             Len(index.nodes[index.root].keys) >= 1
        /\ index.size = 0 => BPlusTree_for_each(index) = <<>>)

\* a tree that had split has been emptied by removes: size 0 under an
\* internal root whose leaves hold no key
C30_Witness ==
  /\ last.op = "remove"
  /\ last.ok
  /\ index.size = 0
  /\ ~index.nodes[index.root].is_leaf
  /\ Len(index.nodes[index.root].keys) = 1
  /\ \A n \in DOMAIN index.nodes :
       index.nodes[n].is_leaf => index.nodes[n].keys = <<>>

====
